---- MODULE Spec2Model ----
(***************************************************************************)
(* The Telegram moderation bot of src/src/bot.py together with the public  *)
(* web routes of src/src/routes/main_routes.py, over the record store of   *)
(* src/src/models.  One action per handler; the guards of the actions are  *)
(* the dispatch rules of the handler registration in main() (one handler   *)
(* per update, first match in registration order; a ConversationHandler    *)
(* offers its entry points only while the conversation is not running, and *)
(* its state handlers, then its fallbacks, while it is).                   *)
(***************************************************************************)
EXTENDS Integers, Sequences, FiniteSets, Bags, TLC

VARIABLES
  FLASK_APP_AVAILABLE,      \* bot.py 25-40: the models and db were imported
  dialect,                  \* main.py 17-21: the storage engine behind db
  mods,                     \* table mods: row i has id i, created in that order
  categories,               \* table categories: the names, in creation order
  admins,                   \* table admins: the telegram ids
  user_data,                \* context.user_data of every user: a dict by key
  add_mod_conv,             \* state of add_mod_conv_handler per user
  suggest_mod_conv,         \* state of suggest_mod_conv_handler per user
  review_mods_conv,         \* state of review_mods_conv_handler per user
  manage_categories_conv,   \* state of manage_categories_conv_handler per user
  sent,                     \* context.bot.send_message to another chat: a bag
  reply                     \* what the handling of the last update showed its user

vars ==
  << FLASK_APP_AVAILABLE, dialect, mods, categories, admins, user_data,
     add_mod_conv, suggest_mod_conv, review_mods_conv, manage_categories_conv,
     sent, reply >>

store == << mods, categories, admins >>

convs == << add_mod_conv, suggest_mod_conv, review_mods_conv, manage_categories_conv >>

env == << FLASK_APP_AVAILABLE, dialect >>

----------------------------------------------------------------------------
(* Bounds of the model. *)

\* the mods table holds at most this many rows (full specification)
MaxMods == 2

\* the mods table holds at most this many rows (review specification)
MaxReviewMods == 3

\* the categories table holds at most this many rows
MaxCategories == 2

----------------------------------------------------------------------------
(* Identities and conversation states. *)

OWNER_TELEGRAM_ID == "7839645457"

OtherUser == "1001"

Users == { OWNER_TELEGRAM_ID, OtherUser }

ADD_MOD_NAME == 0

ADD_MOD_DESCRIPTION == 1

ADD_MOD_LINK == 2

ADD_MOD_IMAGE == 3

ADD_MOD_CONFIRM == 4

CAT_MANAGE_MENU == 5

ADD_CAT_GET_NAME == 6

ADD_CAT_CONFIRM == 7

SUGGEST_MOD_NAME == 13

SUGGEST_MOD_DESCRIPTION == 14

SUGGEST_MOD_LINK == 15

SUGGEST_MOD_IMAGE == 16

SUGGEST_MOD_CONFIRM == 17

REVIEW_MOD_ACTION == 19

\* ConversationHandler.END; a conversation that ended has no state
END == -1

\* a bot that takes every user for the owner
is_owner_Anyone(u) == u \in Users

is_owner(u) == u = OWNER_TELEGRAM_ID

----------------------------------------------------------------------------
(* Python dicts: a function whose domain is the set of keys present. *)

EmptyDict == [k \in {} |-> k]

Has(d, k) == k \in DOMAIN d

DictSet(d, k, v) == [x \in (DOMAIN d) \cup {k} |-> IF x = k THEN v ELSE d[x]]

\* a pop that leaves the key in place
DictPop_Keeps(d, k) == d

DictPop(d, k) == [x \in (DOMAIN d) \ {k} |-> d[x]]

DictGet(d, k, default) == IF Has(d, k) THEN d[k] ELSE default

----------------------------------------------------------------------------
(* Text.  A text is a sequence of characters, a character a one-letter    *)
(* string; "U+00C9" and "U+00E9" are the capital and the small e-acute.   *)

AsciiLower(c) ==
  CASE c = "A" -> "a"
    [] c = "B" -> "b"
    [] c = "T" -> "t"
    [] OTHER -> c

UnicodeLower(c) == IF c = "U+00C9" THEN "U+00E9" ELSE AsciiLower(c)

\* str.lower() of Python, the sense in which two names are equal ignoring case
LowerText(t) == [i \in 1..Len(t) |-> UnicodeLower(t[i])]

\* the case folding of the storage engine: lower() of SQLite folds ASCII only
FoldChar(c, d) == IF d = "sqlite" THEN AsciiLower(c) ELSE UnicodeLower(c)

FoldText(t, d) == [i \in 1..Len(t) |-> FoldChar(t[i], d)]

\* PostgreSQL escapes with a backslash in LIKE patterns; SQLite has no escape
EscapeChar(d) == IF d = "postgresql" THEN "\\" ELSE "none"

RECURSIVE LikeInvalid(_, _)
\* the pattern ends in a lone escape character: the engine raises
LikeInvalid(p, esc) ==
  IF p = << >> THEN FALSE
  ELSE IF Head(p) = esc
    THEN Len(p) = 1 \/ LikeInvalid(Tail(Tail(p)), esc)
    ELSE LikeInvalid(Tail(p), esc)

RECURSIVE LikeMatch(_, _, _)
\* s LIKE p: % is any run of characters, _ any one character
LikeMatch(p, s, esc) ==
  IF p = << >> THEN s = << >>
  ELSE IF Head(p) = esc
    THEN /\ Len(p) > 1
         /\ s # << >>
         /\ Head(s) = p[2]
         /\ LikeMatch(Tail(Tail(p)), Tail(s), esc)
  ELSE IF Head(p) = "%"
    THEN \/ LikeMatch(Tail(p), s, esc)
         \/ (s # << >> /\ LikeMatch(p, Tail(s), esc))
  ELSE IF Head(p) = "_"
    THEN s # << >> /\ LikeMatch(Tail(p), Tail(s), esc)
  ELSE s # << >> /\ Head(s) = Head(p) /\ LikeMatch(Tail(p), Tail(s), esc)

\* column.ilike(pattern): lower(column) LIKE lower(pattern)
ILike(s, p, d) == LikeMatch(FoldText(p, d), FoldText(s, d), EscapeChar(d))

ILikeRaises(p, d) == LikeInvalid(FoldText(p, d), EscapeChar(d))

----------------------------------------------------------------------------
(* Inbound updates. *)

Command(name) == [kind |-> "command", payload |-> name]

TextMsg(t) == [kind |-> "text", payload |-> t]

PhotoMsg(p) == [kind |-> "photo", payload |-> p]

\* a button press; the callback data is kept split at its underscores
Callback(data) == [kind |-> "callback", payload |-> data]

IsCallback(upd, data) == upd.kind = "callback" /\ upd.payload = data

add_mod_start == << "add", "mod", "start" >>

confirm_add_mod_yes == << "confirm", "add", "mod", "yes" >>

confirm_add_mod_cancel == << "confirm", "add", "mod", "cancel" >>

suggest_new_mod_start == << "suggest", "new", "mod", "start" >>

confirm_suggest_mod_yes == << "confirm", "suggest", "mod", "yes" >>

confirm_suggest_mod_cancel == << "confirm", "suggest", "mod", "cancel" >>

review_suggested_mods_start == << "review", "suggested", "mods", "start" >>

review_action_skip == << "review", "action", "skip" >>

main_menu_from_review == << "main", "menu", "from", "review" >>

manage_categories_menu == << "manage", "categories", "menu" >>

add_category_start == << "add", "category", "start" >>

list_all_categories == << "list", "all", "categories" >>

main_menu_from_cat_manage == << "main", "menu", "from", "cat", "manage" >>

manage_categories_menu_from_list == << "manage", "categories", "menu", "from", "list" >>

confirm_add_category_yes == << "confirm", "add", "category", "yes" >>

confirm_add_category_cancel == << "confirm", "add", "category", "cancel" >>

view_stats == << "view", "stats" >>

\* f"review_action_approve_{mod_id}" and f"review_action_reject_{mod_id}"
ReviewButton(action_type, mod_id) == << "review", "action", action_type, ToString(mod_id) >>

\* pattern ^review_action_(approve|reject|skip)_.*$
MatchesReviewActionPattern(data) ==
  /\ Len(data) >= 4
  /\ data[1] = "review"
  /\ data[2] = "action"
  /\ data[3] \in { "approve", "reject", "skip" }

\* pattern ^main_menu_
MatchesMainMenuPattern(data) ==
  /\ Len(data) >= 3
  /\ data[1] = "main"
  /\ data[2] = "menu"

\* an int() that reads whatever it cannot parse as 1
ParseInt_Lenient(str, upto) ==
  IF \E n \in 0..upto : ToString(n) = str
    THEN CHOOSE n \in 0..upto : ToString(n) = str
    ELSE 1

\* int(mod_id_str): the number the digits spell, or -1 where int() raises ValueError
ParseInt(str, upto) ==
  IF \E n \in 0..upto : ToString(n) = str
    THEN CHOOSE n \in 0..upto : ToString(n) = str
    ELSE -1

----------------------------------------------------------------------------
(* The record store. *)

\* Mod(name=..., description=..., download_link=..., image_filename=...,
\*     uploader_telegram_id=..., status=...)
Mod(mod_data, uploader, status) ==
  [ name |-> mod_data["name"],
    description |-> mod_data["description"],
    download_link |-> mod_data["download_link"],
    image_filename |-> mod_data["image_filename"],
    category_id |-> 0,   \* NULL: nullable, and not given
    uploader_telegram_id |-> uploader,
    status |-> status ]

ModFields == { "name", "description", "download_link", "image_filename" }

\* Mod.query.get(mod_id) finds a row
ModExists(mod_id) == mod_id \in 1..Len(mods)

RECURSIVE FilterIds(_, _)
\* the ids up to n, ascending, of the rows with that status
FilterIds(status, n) ==
  IF n = 0 THEN << >>
  ELSE IF mods[n].status = status
    THEN Append(FilterIds(status, n - 1), n)
    ELSE FilterIds(status, n - 1)

\* a query that forgets the status
PendingMods_All == [i \in 1..Len(mods) |-> i]

\* Mod.query.filter_by(status="pending_approval").order_by(Mod.created_at.asc())
PendingMods == FilterIds("pending_approval", Len(mods))

\* Category.query.filter(Category.name.ilike(cat_name)).first() finds a row
ExistingCategory(cat_name) ==
  \E i \in 1..Len(categories) : ILike(categories[i], cat_name, dialect)

\* the display name of a category is unique: a commit of a second row
\* with the same name is refused
CategoryNameTaken(cat_name) ==
  \E i \in 1..Len(categories) : categories[i] = cat_name

\* a reject that deletes the row instead of keeping it for the record
SetStatus_Deletes(mod_id, status) ==
  IF status = "rejected"
    THEN SubSeq(mods, 1, mod_id - 1) \o SubSeq(mods, mod_id + 1, Len(mods))
    ELSE [mods EXCEPT ![mod_id].status = status]

\* a write that reaches every row
SetStatus_All(mod_id, status) == [i \in 1..Len(mods) |-> [mods[i] EXCEPT !.status = status]]

\* mod.status = ...; db.session.commit()
SetStatus(mod_id, status) == [mods EXCEPT ![mod_id].status = status]

----------------------------------------------------------------------------
(* Outbound messages. *)

Msg(text) == [text |-> text, mod |-> 0]

\* a message about one submission
ModMsg(text, mod_id) == [text |-> text, mod |-> mod_id]

Shown(u, texts) == [to |-> u, texts |-> texts]

\* context.bot.send_message(chat_id=to, ...): one more dispatch to another chat
Notify(to, kind, mod_id) == sent (+) SetToBag({ [to |-> to, kind |-> kind, mod |-> mod_id] })

\* no menu is shown
MainMenu_None == << >>

\* go_to_main_menu_owner shows the owner's menu and changes nothing
MainMenu == << Msg("owner_menu") >>

\* a handler raised: ConversationHandler keeps the state, error_handler replies
Raised(u) ==
  /\ reply' = Shown(u, << Msg("handler_error") >>)
  /\ UNCHANGED << env, store, user_data, convs, sent >>

----------------------------------------------------------------------------
(* Dispatch: Application.process_update hands an update to the first      *)
(* handler of the registration order whose check_update accepts it.        *)

\* add_mod_conv_handler.check_update
AddModConvHandler(u, upd) ==
  LET s == add_mod_conv[u] IN
  IF s = END
    THEN IF IsCallback(upd, add_mod_start) THEN "add_mod_start_callback" ELSE "none"
  ELSE IF s = ADD_MOD_NAME /\ upd.kind = "text" THEN "get_owner_mod_name"
  ELSE IF s = ADD_MOD_DESCRIPTION /\ upd.kind = "text" THEN "get_owner_mod_description"
  ELSE IF s = ADD_MOD_LINK /\ upd.kind = "text" THEN "get_owner_mod_link"
  ELSE IF s = ADD_MOD_IMAGE /\ upd.kind = "photo" THEN "get_owner_mod_image"
  ELSE IF s = ADD_MOD_CONFIRM
          /\ (IsCallback(upd, confirm_add_mod_yes) \/ IsCallback(upd, confirm_add_mod_cancel))
    THEN "confirm_add_mod_callback"
  ELSE IF upd.kind = "command" /\ upd.payload = "start" THEN "start_command"
  ELSE IF upd.kind = "callback" /\ MatchesMainMenuPattern(upd.payload)
    THEN "go_to_main_menu_owner"
  ELSE "none"

\* suggest_mod_conv_handler.check_update
SuggestModConvHandler(u, upd) ==
  LET s == suggest_mod_conv[u] IN
  IF s = END
    THEN IF IsCallback(upd, suggest_new_mod_start)
           THEN "suggest_new_mod_start_callback" ELSE "none"
  ELSE IF s = SUGGEST_MOD_NAME /\ upd.kind = "text" THEN "get_user_mod_name"
  ELSE IF s = SUGGEST_MOD_DESCRIPTION /\ upd.kind = "text" THEN "get_user_mod_description"
  ELSE IF s = SUGGEST_MOD_LINK /\ upd.kind = "text" THEN "get_user_mod_link"
  ELSE IF s = SUGGEST_MOD_IMAGE /\ upd.kind = "photo" THEN "get_user_mod_image"
  ELSE IF s = SUGGEST_MOD_CONFIRM
          /\ (IsCallback(upd, confirm_suggest_mod_yes)
              \/ IsCallback(upd, confirm_suggest_mod_cancel))
    THEN "confirm_suggest_mod_callback"
  ELSE IF upd.kind = "command" /\ upd.payload = "start" THEN "start_command"
  ELSE "none"

\* review_mods_conv_handler.check_update
ReviewModsConvHandler(u, upd) ==
  LET s == review_mods_conv[u] IN
  IF s = END
    THEN IF IsCallback(upd, review_suggested_mods_start)
           THEN "review_suggested_mods_start_callback" ELSE "none"
  ELSE IF s = REVIEW_MOD_ACTION /\ upd.kind = "callback"
          /\ MatchesReviewActionPattern(upd.payload)
    THEN "review_action_callback"
  ELSE IF IsCallback(upd, main_menu_from_review) THEN "go_to_main_menu_owner"
  ELSE IF upd.kind = "command" /\ upd.payload = "start" THEN "start_command"
  ELSE "none"

\* manage_categories_conv_handler.check_update
ManageCategoriesConvHandler(u, upd) ==
  LET s == manage_categories_conv[u] IN
  IF s = END
    THEN IF IsCallback(upd, manage_categories_menu)
           THEN "manage_categories_menu_callback" ELSE "none"
  ELSE IF s = CAT_MANAGE_MENU /\ IsCallback(upd, add_category_start)
    THEN "add_category_start_callback"
  ELSE IF s = CAT_MANAGE_MENU /\ IsCallback(upd, list_all_categories)
    THEN "list_all_categories_callback"
  ELSE IF s = CAT_MANAGE_MENU /\ IsCallback(upd, main_menu_from_cat_manage)
    THEN "go_to_main_menu_owner"
  ELSE IF s = CAT_MANAGE_MENU /\ IsCallback(upd, manage_categories_menu_from_list)
    THEN "manage_categories_menu_callback"
  ELSE IF s = ADD_CAT_GET_NAME /\ upd.kind = "text" THEN "get_new_category_name"
  ELSE IF s = ADD_CAT_CONFIRM
          /\ (IsCallback(upd, confirm_add_category_yes)
              \/ IsCallback(upd, confirm_add_category_cancel))
    THEN "confirm_add_category_callback"
  ELSE IF upd.kind = "command" /\ upd.payload = "start" THEN "start_command"
  ELSE IF upd.kind = "callback" /\ MatchesMainMenuPattern(upd.payload)
    THEN "go_to_main_menu_owner"
  ELSE "none"

\* the handler that gets the update, and the conversation it runs in
Dispatch(u, upd) ==
  IF upd.kind = "command" /\ upd.payload = "start"
    THEN << "application", "start_command" >>
  ELSE IF AddModConvHandler(u, upd) # "none"
    THEN << "add_mod_conv_handler", AddModConvHandler(u, upd) >>
  ELSE IF SuggestModConvHandler(u, upd) # "none"
    THEN << "suggest_mod_conv_handler", SuggestModConvHandler(u, upd) >>
  ELSE IF ReviewModsConvHandler(u, upd) # "none"
    THEN << "review_mods_conv_handler", ReviewModsConvHandler(u, upd) >>
  ELSE IF ManageCategoriesConvHandler(u, upd) # "none"
    THEN << "manage_categories_conv_handler", ManageCategoriesConvHandler(u, upd) >>
  ELSE IF IsCallback(upd, view_stats)
    THEN << "application", "view_stats_callback" >>
  ELSE IF upd.kind = "command"
    THEN << "application", "unknown_command" >>
  ELSE << "application", "none" >>

Handler(u, upd) == Dispatch(u, upd)[2]

----------------------------------------------------------------------------
(* Command handlers. *)

start_command(u, upd) ==
  /\ Handler(u, upd) = "start_command"
  /\ IF is_owner(u)
       THEN /\ admins' = IF FLASK_APP_AVAILABLE
                           THEN admins \cup { OWNER_TELEGRAM_ID } ELSE admins
            /\ reply' = Shown(u, MainMenu)
       ELSE /\ admins' = admins
            /\ reply' = Shown(u, << Msg("user_welcome") >>)
  /\ UNCHANGED << env, mods, categories, user_data, convs, sent >>

\* an answer to an unknown command that also ends the flows of the user
unknown_command_EndsFlows(u, upd) ==
  /\ Handler(u, upd) = "unknown_command"
  /\ reply' = Shown(u, << Msg("unknown_command") >>)
  /\ add_mod_conv' = [add_mod_conv EXCEPT ![u] = END]
  /\ suggest_mod_conv' = [suggest_mod_conv EXCEPT ![u] = END]
  /\ UNCHANGED << env, store, user_data, review_mods_conv, manage_categories_conv, sent >>

unknown_command(u, upd) ==
  /\ Handler(u, upd) = "unknown_command"
  /\ reply' = Shown(u, << Msg("unknown_command") >>)
  /\ UNCHANGED << env, store, user_data, convs, sent >>

\* a menu that clears the buffers of the flows and keeps their states
go_to_main_menu_owner_Clears(u, upd) ==
  /\ Handler(u, upd) = "go_to_main_menu_owner"
  /\ reply' = Shown(u, MainMenu)
  /\ user_data' = [user_data EXCEPT ![u] = EmptyDict]
  /\ UNCHANGED << env, store, convs, sent >>

\* the fallback and the CAT_MANAGE_MENU lambdas: the menu, and None for the state
go_to_main_menu_owner(u, upd) ==
  /\ Handler(u, upd) = "go_to_main_menu_owner"
  /\ reply' = Shown(u, MainMenu)
  /\ UNCHANGED << env, store, user_data, convs, sent >>

view_stats_callback(u, upd) ==
  /\ Handler(u, upd) = "view_stats_callback"
  /\ reply' = IF ~is_owner(u) THEN Shown(u, << Msg("owner_only") >>)
              ELSE IF ~FLASK_APP_AVAILABLE THEN Shown(u, << Msg("mods_model_unavailable") >>)
              ELSE Shown(u, << Msg("stats") >> \o MainMenu)
  /\ UNCHANGED << env, store, user_data, convs, sent >>

----------------------------------------------------------------------------
(* Generic mod input functions (owner add and user suggest). *)

StateKey(for_suggestion) == IF for_suggestion THEN "suggested_mod" ELSE "current_mod"

\* context.user_data[state_key][field] = value
StoreField(ud, state_key, field, value) ==
  DictSet(ud, state_key, DictSet(ud[state_key], field, value))

\* the returned state becomes the state of the conversation the handler ran in
Return(for_suggestion, u, state) ==
  IF for_suggestion
    THEN /\ suggest_mod_conv' = [suggest_mod_conv EXCEPT ![u] = state]
         /\ UNCHANGED add_mod_conv
    ELSE /\ add_mod_conv' = [add_mod_conv EXCEPT ![u] = state]
         /\ UNCHANGED suggest_mod_conv

\* f"mod_{update.message.message_id}_{photo_file.file_unique_id}{file_extension}"
ImageFilename(photo) ==
  "mod_" \o ToString(photo.message_id) \o "_" \o photo.file_unique_id
         \o (IF photo.has_file_path THEN photo.extension ELSE ".jpg")

get_mod_text(u, upd, for_suggestion, field, saved, next) ==
  IF ~Has(user_data[u], StateKey(for_suggestion))
    THEN Raised(u)
    ELSE /\ user_data' = [user_data EXCEPT
                            ![u] = StoreField(@, StateKey(for_suggestion), field, upd.payload)]
         /\ reply' = Shown(u, << Msg(saved) >>)
         /\ Return(for_suggestion, u, next)
         /\ UNCHANGED << env, store, review_mods_conv, manage_categories_conv, sent >>

_get_mod_name(u, upd, for_suggestion) ==
  get_mod_text(u, upd, for_suggestion, "name", "name_saved",
               IF for_suggestion THEN SUGGEST_MOD_DESCRIPTION ELSE ADD_MOD_DESCRIPTION)

_get_mod_description(u, upd, for_suggestion) ==
  get_mod_text(u, upd, for_suggestion, "description", "description_saved",
               IF for_suggestion THEN SUGGEST_MOD_LINK ELSE ADD_MOD_LINK)

\* a link step that goes straight to the confirmation
_get_mod_link_SkipsImage(u, upd, for_suggestion) ==
  get_mod_text(u, upd, for_suggestion, "download_link", "link_saved",
               IF for_suggestion THEN SUGGEST_MOD_CONFIRM ELSE ADD_MOD_CONFIRM)

_get_mod_link(u, upd, for_suggestion) ==
  get_mod_text(u, upd, for_suggestion, "download_link", "link_saved",
               IF for_suggestion THEN SUGGEST_MOD_IMAGE ELSE ADD_MOD_IMAGE)

_get_mod_image(u, upd, for_suggestion) ==
  LET state_key == StateKey(for_suggestion) IN
  IF ~Has(user_data[u], state_key)
    THEN Raised(u)
    ELSE LET ud == StoreField(user_data[u], state_key, "image_filename",
                              ImageFilename(upd.payload))
         IN /\ user_data' = [user_data EXCEPT ![u] = ud]
            /\ IF ModFields \subseteq DOMAIN ud[state_key]
                 THEN /\ reply' = Shown(u, << Msg("confirm_prompt") >>)
                      /\ Return(for_suggestion, u,
                                IF for_suggestion THEN SUGGEST_MOD_CONFIRM
                                                  ELSE ADD_MOD_CONFIRM)
                 ELSE /\ reply' = Shown(u, << Msg("handler_error") >>)
                      /\ UNCHANGED << add_mod_conv, suggest_mod_conv >>
            /\ UNCHANGED << env, store, review_mods_conv, manage_categories_conv, sent >>

----------------------------------------------------------------------------
(* Add mod conversation (owner). *)

add_mod_start_callback(u, upd) ==
  /\ Handler(u, upd) = "add_mod_start_callback"
  /\ IF ~is_owner(u)
       THEN /\ reply' = Shown(u, << Msg("owner_only") >>)
            /\ add_mod_conv' = [add_mod_conv EXCEPT ![u] = END]
            /\ UNCHANGED user_data
       ELSE /\ user_data' = [user_data EXCEPT ![u] = DictSet(@, "current_mod", EmptyDict)]
            /\ reply' = Shown(u, << Msg("ask_mod_name") >>)
            /\ add_mod_conv' = [add_mod_conv EXCEPT ![u] = ADD_MOD_NAME]
  /\ UNCHANGED << env, store, suggest_mod_conv, review_mods_conv,
                  manage_categories_conv, sent >>

get_owner_mod_name(u, upd) ==
  Handler(u, upd) = "get_owner_mod_name" /\ _get_mod_name(u, upd, FALSE)

get_owner_mod_description(u, upd) ==
  Handler(u, upd) = "get_owner_mod_description" /\ _get_mod_description(u, upd, FALSE)

get_owner_mod_link(u, upd) ==
  Handler(u, upd) = "get_owner_mod_link" /\ _get_mod_link(u, upd, FALSE)

get_owner_mod_image(u, upd) ==
  Handler(u, upd) = "get_owner_mod_image" /\ _get_mod_image(u, upd, FALSE)

\* an owner flow that leaves its row to be reviewed
OwnerMod_Pending(mod_data) == Mod(mod_data, OWNER_TELEGRAM_ID, "pending_approval")

\* the row the owner flow writes
OwnerMod(mod_data) == Mod(mod_data, OWNER_TELEGRAM_ID, "approved")

\* db_ok: db.session.add and db.session.commit go through
confirm_add_mod_callback(u, upd, db_ok) ==
  /\ Handler(u, upd) = "confirm_add_mod_callback"
  /\ IF upd.payload = confirm_add_mod_yes /\ ~Has(user_data[u], "current_mod")
       THEN Raised(u)
     ELSE IF upd.payload = confirm_add_mod_yes /\ ~FLASK_APP_AVAILABLE
       THEN /\ reply' = Shown(u, << Msg("db_connection_error") >>)
            /\ add_mod_conv' = [add_mod_conv EXCEPT ![u] = END]
            /\ UNCHANGED << env, store, user_data, suggest_mod_conv, review_mods_conv,
                            manage_categories_conv, sent >>
     ELSE /\ IF upd.payload = confirm_add_mod_yes
               THEN IF db_ok /\ ModFields \subseteq DOMAIN user_data[u]["current_mod"]
                      THEN /\ mods' = Append(mods, OwnerMod(user_data[u]["current_mod"]))
                           /\ reply' = Shown(u, << Msg("mod_added") >> \o MainMenu)
                      ELSE /\ mods' = mods
                           /\ reply' = Shown(u, << Msg("add_mod_error") >> \o MainMenu)
               ELSE /\ mods' = mods
                    /\ reply' = Shown(u, << Msg("add_mod_cancelled") >> \o MainMenu)
          /\ user_data' = [user_data EXCEPT ![u] = DictPop(@, "current_mod")]
          /\ add_mod_conv' = [add_mod_conv EXCEPT ![u] = END]
          /\ UNCHANGED << env, categories, admins, suggest_mod_conv, review_mods_conv,
                          manage_categories_conv, sent >>

----------------------------------------------------------------------------
(* Suggest mod conversation (user). *)

suggest_new_mod_start_callback(u, upd) ==
  /\ Handler(u, upd) = "suggest_new_mod_start_callback"
  /\ user_data' = [user_data EXCEPT ![u] = DictSet(@, "suggested_mod", EmptyDict)]
  /\ reply' = Shown(u, << Msg("ask_suggestion_name") >>)
  /\ suggest_mod_conv' = [suggest_mod_conv EXCEPT ![u] = SUGGEST_MOD_NAME]
  /\ UNCHANGED << env, store, add_mod_conv, review_mods_conv, manage_categories_conv, sent >>

get_user_mod_name(u, upd) ==
  Handler(u, upd) = "get_user_mod_name" /\ _get_mod_name(u, upd, TRUE)

get_user_mod_description(u, upd) ==
  Handler(u, upd) = "get_user_mod_description" /\ _get_mod_description(u, upd, TRUE)

get_user_mod_link(u, upd) ==
  Handler(u, upd) = "get_user_mod_link" /\ _get_mod_link(u, upd, TRUE)

get_user_mod_image(u, upd) ==
  Handler(u, upd) = "get_user_mod_image" /\ _get_mod_image(u, upd, TRUE)

\* a suggestion flow that credits the owner
SuggestedMod_ByOwner(mod_data, u) == Mod(mod_data, OWNER_TELEGRAM_ID, "pending_approval")

\* the row the suggestion flow writes
SuggestedMod(mod_data, u) == Mod(mod_data, u, "pending_approval")

\* whom the suggestion flow tells about a new suggestion
SuggestionNotice(mod_id) == Notify(OWNER_TELEGRAM_ID, "new_suggestion", mod_id)

\* db_ok: the commit goes through; deliver_ok: the owner's chat can be reached
confirm_suggest_mod_callback(u, upd, db_ok, deliver_ok) ==
  /\ Handler(u, upd) = "confirm_suggest_mod_callback"
  /\ IF upd.payload = confirm_suggest_mod_yes /\ ~Has(user_data[u], "suggested_mod")
       THEN Raised(u)
     ELSE IF upd.payload = confirm_suggest_mod_yes /\ ~FLASK_APP_AVAILABLE
       THEN /\ reply' = Shown(u, << Msg("db_connection_error") >>)
            /\ suggest_mod_conv' = [suggest_mod_conv EXCEPT ![u] = END]
            /\ UNCHANGED << env, store, user_data, add_mod_conv, review_mods_conv,
                            manage_categories_conv, sent >>
     ELSE /\ IF upd.payload = confirm_suggest_mod_yes
               THEN IF db_ok /\ ModFields \subseteq DOMAIN user_data[u]["suggested_mod"]
                      THEN /\ mods' = Append(mods, SuggestedMod(user_data[u]["suggested_mod"], u))
                           /\ sent' = SuggestionNotice(Len(mods) + 1)
                           /\ reply' = IF deliver_ok
                                         THEN Shown(u, << Msg("suggestion_received") >>)
                                         ELSE Shown(u, << Msg("suggestion_received"),
                                                          Msg("suggestion_error") >>)
                      ELSE /\ mods' = mods
                           /\ sent' = sent
                           /\ reply' = Shown(u, << Msg("suggestion_error") >>)
               ELSE /\ mods' = mods
                    /\ sent' = sent
                    /\ reply' = Shown(u, << Msg("suggestion_cancelled") >>)
          /\ user_data' = [user_data EXCEPT ![u] = DictPop(@, "suggested_mod")]
          /\ suggest_mod_conv' = [suggest_mod_conv EXCEPT ![u] = END]
          /\ UNCHANGED << env, categories, admins, add_mod_conv, review_mods_conv,
                          manage_categories_conv >>

----------------------------------------------------------------------------
(* Review suggested mods (owner). *)

\* what display_pending_mod_for_review does with the user's dict ud: the dict
\* it leaves, the texts it shows and the state it returns
display_pending_mod_for_review(ud) ==
  LET idx == DictGet(ud, "current_review_index", 0)
      pending_ids == DictGet(ud, "pending_mods_list", << >>)
  IN IF idx >= Len(pending_ids)
       THEN [ud |-> ud, texts |-> << Msg("no_more_pending") >> \o MainMenu, state |-> END]
     ELSE IF ~FLASK_APP_AVAILABLE
       THEN [ud |-> ud, texts |-> << >>, state |-> END]
     ELSE IF ~ModExists(pending_ids[idx + 1])
       THEN [ud |-> ud, texts |-> << Msg("mod_not_found") >> \o MainMenu, state |-> END]
     ELSE [ud |-> DictSet(ud, "current_review_mod_id", pending_ids[idx + 1]),
           texts |-> << ModMsg("review_item", pending_ids[idx + 1]) >>,
           state |-> REVIEW_MOD_ACTION]

\* an index that moves on and a list that is queried again
NextIndex_Requery(ud) ==
  DictSet(DictSet(ud, "current_review_index", DictGet(ud, "current_review_index", 0) + 1),
          "pending_mods_list", PendingMods)

\* an index that moves on by two
NextIndex_Twice(ud) ==
  DictSet(ud, "current_review_index", DictGet(ud, "current_review_index", 0) + 2)

\* context.user_data["current_review_index"] =
\*     context.user_data.get("current_review_index", 0) + 1
NextIndex(ud) ==
  DictSet(ud, "current_review_index", DictGet(ud, "current_review_index", 0) + 1)

\* the snapshot review-start takes
Snapshot(ud) ==
  DictSet(DictSet(ud, "pending_mods_list", PendingMods), "current_review_index", 0)

review_suggested_mods_start_callback(u, upd) ==
  /\ Handler(u, upd) = "review_suggested_mods_start_callback"
  /\ IF ~is_owner(u)
       THEN /\ reply' = Shown(u, << Msg("owner_only") >>)
            /\ UNCHANGED << user_data, review_mods_conv >>
     ELSE IF ~FLASK_APP_AVAILABLE
       THEN /\ reply' = Shown(u, << Msg("mods_model_unavailable") >>)
            /\ UNCHANGED << user_data, review_mods_conv >>
     ELSE IF PendingMods = << >>
       THEN /\ reply' = Shown(u, << Msg("nothing_to_review") >> \o MainMenu)
            /\ UNCHANGED << user_data, review_mods_conv >>
     ELSE LET d == display_pending_mod_for_review(Snapshot(user_data[u]))
          IN /\ user_data' = [user_data EXCEPT ![u] = d.ud]
             /\ reply' = Shown(u, d.texts)
             /\ review_mods_conv' = [review_mods_conv EXCEPT ![u] = d.state]
  /\ UNCHANGED << env, store, add_mod_conv, suggest_mod_conv, manage_categories_conv, sent >>

\* the status an approve or a reject writes
Decision(action_type) == IF action_type = "approve" THEN "approved" ELSE "rejected"

\* a notice that goes out to the owner as well
DecisionNotice_Always(mod_id, action_type) ==
  Notify(mods[mod_id].uploader_telegram_id, Decision(action_type), mod_id)

\* the submitter is told of the decision unless the submitter is the owner
DecisionNotice(mod_id, action_type) ==
  IF mods[mod_id].uploader_telegram_id # OWNER_TELEGRAM_ID
    THEN Notify(mods[mod_id].uploader_telegram_id, Decision(action_type), mod_id)
    ELSE sent

\* the review ends with one text shown
ReviewEnds(u, text) ==
  /\ reply' = Shown(u, << Msg(text) >>)
  /\ review_mods_conv' = [review_mods_conv EXCEPT ![u] = END]
  /\ UNCHANGED << mods, user_data, sent >>

\* the index moves on and the next item is displayed
ReviewMovesOn(u, shown) ==
  LET d == display_pending_mod_for_review(NextIndex(user_data[u]))
  IN /\ user_data' = [user_data EXCEPT ![u] = d.ud]
     /\ reply' = Shown(u, shown \o d.texts)
     /\ review_mods_conv' = [review_mods_conv EXCEPT ![u] = d.state]

\* db_ok: db.session.commit goes through
review_action_callback(u, upd, db_ok) ==
  /\ Handler(u, upd) = "review_action_callback"
  /\ LET action_data == upd.payload
         action_type == action_data[Len(action_data) - 1]
         mod_id == ParseInt(action_data[Len(action_data)], 9)
     IN IF ~FLASK_APP_AVAILABLE
          THEN ReviewEnds(u, "db_connection_error")
        ELSE IF action_data = review_action_skip
          THEN ReviewMovesOn(u, << >>) /\ UNCHANGED << mods, sent >>
        ELSE IF action_data = main_menu_from_review
          THEN ReviewEnds(u, "owner_menu")
        ELSE IF mod_id = -1
          THEN ReviewEnds(u, "action_data_error")
        ELSE IF ~ModExists(mod_id)
          THEN ReviewEnds(u, "update_not_found")
        ELSE IF action_type \notin { "approve", "reject" }
          THEN ReviewEnds(u, "unknown_action")
        ELSE IF ~db_ok
          THEN ReviewEnds(u, "action_processing_error")
        ELSE /\ mods' = SetStatus(mod_id, Decision(action_type))
             /\ sent' = DecisionNotice(mod_id, action_type)
             /\ ReviewMovesOn(u, << ModMsg(Decision(action_type), mod_id) >>)
  /\ UNCHANGED << env, categories, admins, add_mod_conv, suggest_mod_conv,
                  manage_categories_conv >>

----------------------------------------------------------------------------
(* Category management (owner). *)

manage_categories_menu_callback(u, upd) ==
  /\ Handler(u, upd) = "manage_categories_menu_callback"
  /\ IF ~is_owner(u)
       THEN /\ reply' = Shown(u, << Msg("owner_only") >>)
            /\ manage_categories_conv' = [manage_categories_conv EXCEPT ![u] = END]
       ELSE /\ reply' = Shown(u, << Msg("categories_menu") >>)
            /\ manage_categories_conv' = [manage_categories_conv EXCEPT ![u] = CAT_MANAGE_MENU]
  /\ UNCHANGED << env, store, user_data, add_mod_conv, suggest_mod_conv,
                  review_mods_conv, sent >>

list_all_categories_callback(u, upd) ==
  /\ Handler(u, upd) = "list_all_categories_callback"
  /\ reply' = IF ~FLASK_APP_AVAILABLE
                THEN Shown(u, << Msg("categories_model_unavailable") >>)
                ELSE Shown(u, << Msg("categories_list") >>)
  /\ UNCHANGED << env, store, user_data, convs, sent >>

add_category_start_callback(u, upd) ==
  /\ Handler(u, upd) = "add_category_start_callback"
  /\ user_data' = [user_data EXCEPT ![u] = DictSet(@, "new_category", EmptyDict)]
  /\ reply' = Shown(u, << Msg("ask_category_name") >>)
  /\ manage_categories_conv' = [manage_categories_conv EXCEPT ![u] = ADD_CAT_GET_NAME]
  /\ UNCHANGED << env, store, add_mod_conv, suggest_mod_conv, review_mods_conv, sent >>

get_new_category_name(u, upd) ==
  /\ Handler(u, upd) = "get_new_category_name"
  /\ IF ~Has(user_data[u], "new_category")
       THEN Raised(u)
       ELSE /\ user_data' = [user_data EXCEPT
                               ![u] = StoreField(@, "new_category", "name", upd.payload)]
            /\ reply' = Shown(u, << Msg("confirm_category") >>)
            /\ manage_categories_conv' = [manage_categories_conv EXCEPT ![u] = ADD_CAT_CONFIRM]
            /\ UNCHANGED << env, store, add_mod_conv, suggest_mod_conv,
                            review_mods_conv, sent >>

\* the menu confirm_add_category_callback shows last, by calling
\* manage_categories_menu_callback
MenuAgain(u) ==
  IF is_owner(u) THEN << Msg("categories_menu") >> ELSE << Msg("owner_only") >>

\* the outcome of the try block: what is shown, and whether a row is written
AddCategory(cat_name, db_ok) ==
  IF ILikeRaises(cat_name, dialect)
    THEN [text |-> "category_error", added |-> FALSE]
  ELSE IF ExistingCategory(cat_name)
    THEN [text |-> "category_exists", added |-> FALSE]
  ELSE IF ~db_ok \/ CategoryNameTaken(cat_name)
    THEN [text |-> "category_error", added |-> FALSE]
  ELSE [text |-> "category_added", added |-> TRUE]

\* db_ok: db.session.add and db.session.commit go through
confirm_add_category_callback(u, upd, db_ok) ==
  /\ Handler(u, upd) = "confirm_add_category_callback"
  /\ IF upd.payload = confirm_add_category_yes
          /\ ~(Has(user_data[u], "new_category") /\ Has(user_data[u]["new_category"], "name"))
       THEN Raised(u)
     ELSE IF upd.payload = confirm_add_category_yes /\ ~FLASK_APP_AVAILABLE
       THEN /\ reply' = Shown(u, << Msg("db_connection_error") >>)
            /\ manage_categories_conv' = [manage_categories_conv EXCEPT ![u] = CAT_MANAGE_MENU]
            /\ UNCHANGED << env, store, user_data, add_mod_conv, suggest_mod_conv,
                            review_mods_conv, sent >>
     ELSE /\ IF upd.payload = confirm_add_category_yes
               THEN LET cat_name == user_data[u]["new_category"]["name"]
                        done == AddCategory(cat_name, db_ok)
                    IN /\ categories' = IF done.added THEN Append(categories, cat_name)
                                                      ELSE categories
                       /\ reply' = Shown(u, << Msg(done.text) >> \o MenuAgain(u))
               ELSE /\ categories' = categories
                    /\ reply' = Shown(u, << Msg("category_cancelled") >> \o MenuAgain(u))
          /\ user_data' = [user_data EXCEPT ![u] = DictPop(@, "new_category")]
          /\ manage_categories_conv' = [manage_categories_conv EXCEPT ![u] = CAT_MANAGE_MENU]
          /\ UNCHANGED << env, mods, admins, add_mod_conv, suggest_mod_conv,
                          review_mods_conv, sent >>

----------------------------------------------------------------------------
(* The public web routes: the ids of the submissions a page shows. *)

ApprovedIds == { i \in 1..Len(mods) : mods[i].status = "approved" }

\* "/": the ten latest approved
index ==
  { i \in ApprovedIds : Cardinality({ j \in ApprovedIds : j > i }) < 10 }

\* "/mod/<mod_id>": the row, or 404 (nothing)
mod_detail(mod_id) == { i \in ApprovedIds : i = mod_id }

\* "/category/<category_id>": 404 (nothing) without the category
category_mods(category_id) ==
  IF category_id \in 1..Len(categories)
    THEN { i \in ApprovedIds : mods[i].category_id = category_id }
    ELSE { }

\* a search that forgets the status
search_AnyStatus(query) ==
  IF query = << >> \/ ILikeRaises(<< "%" >> \o query \o << "%" >>, dialect)
    THEN { }
    ELSE { i \in 1..Len(mods) : ILike(mods[i].name, << "%" >> \o query \o << "%" >>, dialect) }

\* "/search?query=": name ilike %query%
search(query) ==
  IF query = << >> \/ ILikeRaises(<< "%" >> \o query \o << "%" >>, dialect)
    THEN { }
    ELSE { i \in 1..Len(mods) :
             /\ ILike(mods[i].name, << "%" >> \o query \o << "%" >>, dialect)
             /\ mods[i].status = "approved" }

----------------------------------------------------------------------------
(* The inputs the users send. *)

Names == { << "T" >>, << "a", "B" >> }

Descriptions == { << "d" >> }

Links == { << "l" >> }

Photos ==
  { [message_id |-> 7, file_unique_id |-> "AQAD", has_file_path |-> TRUE, extension |-> ".png"],
    [message_id |-> 8, file_unique_id |-> "AQAE", has_file_path |-> FALSE, extension |-> ""] }

\* names with the characters LIKE reads as wildcards or as an escape, and
\* names that differ in the case of a letter
CategoryNames ==
  { << "A", "b" >>, << "a", "B" >>, << "a", "_" >>, << "a", "\\", "b" >>,
    << "A", "\\", "B" >>, << "U+00C9" >>, << "U+00E9" >> }

\* the submissions whose approve and reject buttons the running pass has shown to u
Displayed(u) ==
  LET ud == user_data[u]
      pending_ids == DictGet(ud, "pending_mods_list", << >>)
      idx == DictGet(ud, "current_review_index", 0)
  IN { pending_ids[i] : i \in { j \in 1..Len(pending_ids) : j <= idx + 1 } }

ReviewButtons(u) ==
  { ReviewButton(a, id) : a \in { "approve", "reject" }, id \in Displayed(u) }

\* callback data the pattern of REVIEW_MOD_ACTION accepts that are no approve
\* or reject of a numbered submission: an id that is no number, no id at all,
\* an action that is none of the two
MalformedButtons ==
  { << "review", "action", "approve", "abc" >>,
    << "review", "action", "reject", "" >>,
    << "review", "action", "skip", "1" >>,
    << "review", "action", "approve", "x", "1" >> }

\* the buttons of the menus and of the confirmation prompts
MenuButtons ==
  { add_mod_start, confirm_add_mod_yes, confirm_add_mod_cancel, suggest_new_mod_start,
    confirm_suggest_mod_yes, confirm_suggest_mod_cancel, review_suggested_mods_start,
    review_action_skip, main_menu_from_review, manage_categories_menu, add_category_start,
    list_all_categories, main_menu_from_cat_manage, manage_categories_menu_from_list,
    confirm_add_category_yes, confirm_add_category_cancel, view_stats }

\* what a user can send: commands, a text, a photo, a press of a button
Updates(u) ==
  { Command("start"), Command("help"), TextMsg(<< "T" >>) }
    \cup { PhotoMsg(p) : p \in Photos }
    \cup { Callback(b) : b \in MenuButtons \cup ReviewButtons(u) }

\* the user sends an update no handler accepts: nothing is run and nothing is shown
Unhandled(u) ==
  /\ { upd \in Updates(u) : Handler(u, upd) = "none" } # { }
  /\ reply' = Shown(u, << >>)
  /\ UNCHANGED << env, store, user_data, convs, sent >>

----------------------------------------------------------------------------
(* The specifications. *)

\* the bot has started: src.main, where it could be imported, has created the
\* tables and the owner's row of admins; no user has a conversation or user data
Init ==
  /\ FLASK_APP_AVAILABLE \in BOOLEAN
  /\ dialect \in { "sqlite", "postgresql" }
  /\ mods = << >>
  /\ categories = << >>
  /\ admins = IF FLASK_APP_AVAILABLE THEN { OWNER_TELEGRAM_ID } ELSE { }
  /\ user_data = [u \in Users |-> EmptyDict]
  /\ add_mod_conv = [u \in Users |-> END]
  /\ suggest_mod_conv = [u \in Users |-> END]
  /\ review_mods_conv = [u \in Users |-> END]
  /\ manage_categories_conv = [u \in Users |-> END]
  /\ sent = EmptyBag
  /\ reply = Shown(OWNER_TELEGRAM_ID, << >>)

\* /start, the main menu buttons and the updates no handler accepts
Navigation(u) ==
  \/ start_command(u, Command("start"))
  \/ \E b \in { main_menu_from_review, main_menu_from_cat_manage } :
       go_to_main_menu_owner(u, Callback(b))
  \/ Unhandled(u)

\* the owner-only entry points
OwnerEntryPoints(u) ==
  \/ add_mod_start_callback(u, Callback(add_mod_start))
  \/ review_suggested_mods_start_callback(u, Callback(review_suggested_mods_start))
  \/ manage_categories_menu_callback(u, Callback(manage_categories_menu))

\* the steps of the owner flow after its entry, with at most cap rows of mods
AddFlow(u, names, photos, cap) ==
  \/ \E t \in names : get_owner_mod_name(u, TextMsg(t))
  \/ \E t \in Descriptions : get_owner_mod_description(u, TextMsg(t))
  \/ \E t \in Links : get_owner_mod_link(u, TextMsg(t))
  \/ \E p \in photos : get_owner_mod_image(u, PhotoMsg(p))
  \/ \E db_ok \in BOOLEAN :
       /\ Len(mods) < cap
       /\ confirm_add_mod_callback(u, Callback(confirm_add_mod_yes), db_ok)
  \/ confirm_add_mod_callback(u, Callback(confirm_add_mod_cancel), TRUE)

\* the suggestion flow
SuggestFlow(u, names, photos, cap) ==
  \/ suggest_new_mod_start_callback(u, Callback(suggest_new_mod_start))
  \/ \E t \in names : get_user_mod_name(u, TextMsg(t))
  \/ \E t \in Descriptions : get_user_mod_description(u, TextMsg(t))
  \/ \E t \in Links : get_user_mod_link(u, TextMsg(t))
  \/ \E p \in photos : get_user_mod_image(u, PhotoMsg(p))
  \/ \E db_ok, deliver_ok \in BOOLEAN :
       /\ Len(mods) < cap
       /\ confirm_suggest_mod_callback(u, Callback(confirm_suggest_mod_yes), db_ok, deliver_ok)
  \/ confirm_suggest_mod_callback(u, Callback(confirm_suggest_mod_cancel), TRUE, TRUE)

\* the buttons of a review pass
ReviewFlow(u) ==
  \E b \in ReviewButtons(u), db_ok \in BOOLEAN :
    review_action_callback(u, Callback(b), db_ok)

\* presses with callback data no button of the bot carries
MalformedFlow(u) ==
  \E b \in MalformedButtons, db_ok \in BOOLEAN :
    review_action_callback(u, Callback(b), db_ok)

\* category management after its entry, with at most cap rows of categories
CategoryFlow(u, names, cap) ==
  \/ manage_categories_menu_callback(u, Callback(manage_categories_menu_from_list))
  \/ list_all_categories_callback(u, Callback(list_all_categories))
  \/ add_category_start_callback(u, Callback(add_category_start))
  \/ \E t \in names : get_new_category_name(u, TextMsg(t))
  \/ \E db_ok \in BOOLEAN :
       /\ Len(categories) < cap
       /\ confirm_add_category_callback(u, Callback(confirm_add_category_yes), db_ok)
  \/ confirm_add_category_callback(u, Callback(confirm_add_category_cancel), TRUE)

WithPath == { p \in Photos : p.has_file_path }

\* The owner adds mods, the other user suggests mods, and both press the
\* buttons of the owner-only entry points (the owner only that of the add flow).
Next ==
  \/ \E u \in Users : Navigation(u)
  \/ add_mod_start_callback(OWNER_TELEGRAM_ID, Callback(add_mod_start))
  \/ OwnerEntryPoints(OtherUser)
  \/ AddFlow(OWNER_TELEGRAM_ID, Names, WithPath, MaxMods)
  \/ SuggestFlow(OtherUser, Names, WithPath, MaxMods)

Spec == Init /\ [][Next]_vars

\* The other user suggests mods and the owner reviews them.
NextReview ==
  \/ Navigation(OWNER_TELEGRAM_ID)
  \/ review_suggested_mods_start_callback(OWNER_TELEGRAM_ID,
                                          Callback(review_suggested_mods_start))
  \/ ReviewFlow(OWNER_TELEGRAM_ID)
  \/ SuggestFlow(OtherUser, { << "T" >> }, Photos \ WithPath, MaxReviewMods)

\* the bot runs over the local SQLite file, the engine main.py falls back to
InitReview == Init /\ dialect = "sqlite"

SpecReview == InitReview /\ [][NextReview]_vars

\* Both users suggest mods (suggest_new_mod_start_callback asks for no identity,
\* so the owner's suggestion is taken like any other) and the owner reviews
\* them; during a pass the owner also sends the updates that nothing handles,
\* a press of the skip button among them.
NextDecision ==
  \/ review_suggested_mods_start_callback(OWNER_TELEGRAM_ID,
                                          Callback(review_suggested_mods_start))
  \/ ReviewFlow(OWNER_TELEGRAM_ID)
  \/ go_to_main_menu_owner(OWNER_TELEGRAM_ID, Callback(main_menu_from_review))
  \/ \E u \in Users : SuggestFlow(u, { << "T" >> }, Photos \ WithPath, MaxMods)
  \/ /\ review_mods_conv[OWNER_TELEGRAM_ID] = REVIEW_MOD_ACTION
     /\ Unhandled(OWNER_TELEGRAM_ID)

SpecDecision == InitReview /\ [][NextDecision]_vars

\* the row created last is deleted from table mods behind the bot's back (the
\* case display_pending_mod_for_review and review_action_callback provide for);
\* SQLite gives the id of a deleted last row to the next row created
RowDeleted ==
  /\ mods # << >>
  /\ mods' = SubSeq(mods, 1, Len(mods) - 1)
  /\ UNCHANGED << env, categories, admins, user_data, convs, sent, reply >>

\* The other user suggests mods, the owner reviews them, and rows are deleted
\* in between.
NextDeleted ==
  \/ review_suggested_mods_start_callback(OWNER_TELEGRAM_ID,
                                          Callback(review_suggested_mods_start))
  \/ ReviewFlow(OWNER_TELEGRAM_ID)
  \/ /\ BagCardinality(sent) < MaxReviewMods
     /\ SuggestFlow(OtherUser, { << "T" >> }, Photos \ WithPath, MaxMods)
  \/ RowDeleted

SpecDeleted == InitReview /\ [][NextDeleted]_vars

\* The other user suggests mods and the owner reviews them, sending malformed
\* review actions as well.
NextMalformed ==
  \/ review_suggested_mods_start_callback(OWNER_TELEGRAM_ID,
                                          Callback(review_suggested_mods_start))
  \/ ReviewFlow(OWNER_TELEGRAM_ID)
  \/ MalformedFlow(OWNER_TELEGRAM_ID)
  \/ SuggestFlow(OtherUser, { << "T" >> }, Photos \ WithPath, MaxMods)

SpecMalformed == InitReview /\ [][NextMalformed]_vars

\* The owner adds mods and the other user suggests mods; both also send
\* commands and the messages and presses that nothing handles.
NextInput ==
  \/ \E u \in Users : Navigation(u)
  \/ \E u \in Users : unknown_command(u, Command("help"))
  \/ add_mod_start_callback(OWNER_TELEGRAM_ID, Callback(add_mod_start))
  \/ AddFlow(OWNER_TELEGRAM_ID, { << "T" >> }, WithPath, MaxMods)
  \/ SuggestFlow(OtherUser, { << "T" >> }, WithPath, MaxMods)

SpecInput == InitReview /\ [][NextInput]_vars

\* The owner adds mods, suggests mods and adds categories, all three flows
\* over the one user_data of the owner.
NextFlows ==
  \/ Navigation(OWNER_TELEGRAM_ID)
  \/ add_mod_start_callback(OWNER_TELEGRAM_ID, Callback(add_mod_start))
  \/ AddFlow(OWNER_TELEGRAM_ID, { << "T" >> }, WithPath, MaxMods)
  \/ SuggestFlow(OWNER_TELEGRAM_ID, { << "T" >> }, WithPath, MaxMods)
  \/ manage_categories_menu_callback(OWNER_TELEGRAM_ID, Callback(manage_categories_menu))
  \/ CategoryFlow(OWNER_TELEGRAM_ID, { << "A", "b" >> }, MaxCategories)

SpecFlows == InitReview /\ [][NextFlows]_vars

\* The owner adds mods, suggests mods, adds categories, reviews what is
\* pending, and goes back to the menu by /start and by the menu buttons; the
\* owner flow leaves room in the table for a suggestion.
NextStore ==
  \/ start_command(OWNER_TELEGRAM_ID, Command("start"))
  \/ \E b \in { main_menu_from_review, main_menu_from_cat_manage } :
       go_to_main_menu_owner(OWNER_TELEGRAM_ID, Callback(b))
  \/ add_mod_start_callback(OWNER_TELEGRAM_ID, Callback(add_mod_start))
  \/ AddFlow(OWNER_TELEGRAM_ID, { << "T" >> }, WithPath, MaxMods - 1)
  \/ SuggestFlow(OWNER_TELEGRAM_ID, { << "T" >> }, WithPath, MaxMods)
  \/ manage_categories_menu_callback(OWNER_TELEGRAM_ID, Callback(manage_categories_menu))
  \/ CategoryFlow(OWNER_TELEGRAM_ID, { << "A", "b" >> }, MaxCategories)
  \/ review_suggested_mods_start_callback(OWNER_TELEGRAM_ID,
                                          Callback(review_suggested_mods_start))
  \/ ReviewFlow(OWNER_TELEGRAM_ID)

SpecStore == InitReview /\ [][NextStore]_vars

\* The owner manages the categories, asks for the statistics and sends commands.
NextCategories ==
  \/ \E u \in Users : Navigation(u)
  \/ \E u \in Users : unknown_command(u, Command("help"))
  \/ \E u \in Users : view_stats_callback(u, Callback(view_stats))
  \/ manage_categories_menu_callback(OWNER_TELEGRAM_ID, Callback(manage_categories_menu))
  \/ CategoryFlow(OWNER_TELEGRAM_ID, CategoryNames, MaxCategories)

SpecCategories == Init /\ [][NextCategories]_vars

----------------------------------------------------------------------------
(* Vocabulary of the properties. *)

Owner == OWNER_TELEGRAM_ID

NonOwners == Users \ { Owner }

\* the buffer of a flow, or the empty dict where the user has none
Buffer(u, key) == DictGet(user_data[u], key, EmptyDict)

\* the file name the image step derives from each photo
ExpectedFilename(p) == IF p.message_id = 7 THEN "mod_7_AQAD.png" ELSE "mod_8_AQAE.jpg"

\* the row made of the buffered values
RowOf(buf, uploader, status) ==
  [ name |-> buf["name"], description |-> buf["description"],
    download_link |-> buf["download_link"], image_filename |-> buf["image_filename"],
    category_id |-> 0, uploader_telegram_id |-> uploader, status |-> status ]

\* the step stores value v under field f of the buffer, and nothing else
Stores(u, key, f, v) ==
  /\ Has(user_data[u], key)
  /\ Has(user_data'[u], key)
  /\ user_data'[u][key] = DictSet(user_data[u][key], f, v)
  /\ UNCHANGED << store, sent >>

\* a step of a handler of the owner flow of u
AddFlowStep(u) ==
  \/ add_mod_start_callback(u, Callback(add_mod_start))
  \/ \E t \in Names : get_owner_mod_name(u, TextMsg(t))
  \/ \E t \in Descriptions : get_owner_mod_description(u, TextMsg(t))
  \/ \E t \in Links : get_owner_mod_link(u, TextMsg(t))
  \/ \E p \in Photos : get_owner_mod_image(u, PhotoMsg(p))
  \/ \E b \in { confirm_add_mod_yes, confirm_add_mod_cancel }, db_ok \in BOOLEAN :
       confirm_add_mod_callback(u, Callback(b), db_ok)

\* a step of a handler of the suggestion flow of u
SuggestFlowStep(u) ==
  \/ suggest_new_mod_start_callback(u, Callback(suggest_new_mod_start))
  \/ \E t \in Names : get_user_mod_name(u, TextMsg(t))
  \/ \E t \in Descriptions : get_user_mod_description(u, TextMsg(t))
  \/ \E t \in Links : get_user_mod_link(u, TextMsg(t))
  \/ \E p \in Photos : get_user_mod_image(u, PhotoMsg(p))
  \/ \E b \in { confirm_suggest_mod_yes, confirm_suggest_mod_cancel },
        db_ok, deliver_ok \in BOOLEAN :
       confirm_suggest_mod_callback(u, Callback(b), db_ok, deliver_ok)

\* a buffer of user u, present or not, is the same before and after the step
SameBuffer(u, key) ==
  /\ Has(user_data'[u], key) = Has(user_data[u], key)
  /\ Has(user_data[u], key) => user_data'[u][key] = user_data[u][key]

----------------------------------------------------------------------------
(* C1 *)

C1_Step ==
  /\ \A t \in Names :
       get_owner_mod_name(Owner, TextMsg(t)) => Stores(Owner, "current_mod", "name", t)
  /\ \A t \in Descriptions :
       get_owner_mod_description(Owner, TextMsg(t))
         => Stores(Owner, "current_mod", "description", t)
  /\ \A t \in Links :
       get_owner_mod_link(Owner, TextMsg(t))
         => Stores(Owner, "current_mod", "download_link", t)
  /\ \A p \in Photos :
       get_owner_mod_image(Owner, PhotoMsg(p))
         => Stores(Owner, "current_mod", "image_filename", ExpectedFilename(p))
  /\ SameBuffer(Owner, "current_mod") \/ AddFlowStep(Owner)
  /\ (FLASK_APP_AVAILABLE /\ confirm_add_mod_callback(Owner, Callback(confirm_add_mod_yes), TRUE))
       => /\ ModFields \subseteq DOMAIN Buffer(Owner, "current_mod")
          /\ mods' = Append(mods, RowOf(Buffer(Owner, "current_mod"), Owner, "approved"))
          /\ UNCHANGED << categories, admins, sent >>

\* C1: in the owner flow every step stores the value it is sent under its own
\* field of the buffer and writes no record, no other handler touches the
\* buffer, and the confirm (the store taking the write) appends exactly one
\* submission: approved, submitted by the owner, with the name, description,
\* link and image file name of the steps; no other record is created or changed.
C1_OwnerAddCommitsOneApprovedMod == [][C1_Step]_vars

\* the owner has just added the mod named aB
C1_Witness ==
  /\ reply = Shown(Owner, << Msg("mod_added"), Msg("owner_menu") >>)
  /\ Len(mods) = 2
  /\ mods[2] = [ name |-> << "a", "B" >>, description |-> << "d" >>,
                 download_link |-> << "l" >>, image_filename |-> "mod_7_AQAD.png",
                 category_id |-> 0, uploader_telegram_id |-> Owner, status |-> "approved" ]
  /\ mods[1].uploader_telegram_id = OtherUser

----------------------------------------------------------------------------
(* C2 *)

C2_Step ==
  \A u \in NonOwners :
    /\ \A t \in Names :
         get_user_mod_name(u, TextMsg(t)) => Stores(u, "suggested_mod", "name", t)
    /\ \A t \in Descriptions :
         get_user_mod_description(u, TextMsg(t))
           => Stores(u, "suggested_mod", "description", t)
    /\ \A t \in Links :
         get_user_mod_link(u, TextMsg(t)) => Stores(u, "suggested_mod", "download_link", t)
    /\ \A p \in Photos :
         get_user_mod_image(u, PhotoMsg(p))
           => Stores(u, "suggested_mod", "image_filename", ExpectedFilename(p))
    /\ SameBuffer(u, "suggested_mod") \/ SuggestFlowStep(u)
    /\ \A deliver_ok \in BOOLEAN :
         (FLASK_APP_AVAILABLE
            /\ confirm_suggest_mod_callback(u, Callback(confirm_suggest_mod_yes), TRUE, deliver_ok))
           => /\ ModFields \subseteq DOMAIN Buffer(u, "suggested_mod")
              /\ mods' = Append(mods, RowOf(Buffer(u, "suggested_mod"), u, "pending_approval"))
              /\ UNCHANGED << categories, admins >>
              /\ BagCardinality(sent') = BagCardinality(sent) + 1
              /\ \E n \in BagToSet(sent') :
                   /\ n.to = Owner
                   /\ n.kind = "new_suggestion"
                   /\ n.mod = Len(mods) + 1
                   /\ CopiesIn(n, sent') = CopiesIn(n, sent) + 1

\* C2: in the suggestion flow of a user who is not the owner every step stores
\* the value it is sent under its own field of the buffer, no other handler
\* touches the buffer, and the confirm (the store taking the write) appends
\* exactly one submission: pending, submitted by that user, with the values of
\* the steps; exactly one notification, to the owner, is dispatched.
C2_SuggestionCommitsOnePendingMod == [][C2_Step]_vars

\* the other user's suggestion aB has just been received
C2_Witness ==
  /\ reply = Shown(OtherUser, << Msg("suggestion_received") >>)
  /\ Len(mods) = 1
  /\ mods[1].name = << "a", "B" >>
  /\ mods[1].uploader_telegram_id = OtherUser
  /\ mods[1].status = "pending_approval"
  /\ sent = SetToBag({ [to |-> Owner, kind |-> "new_suggestion", mod |-> 1] })

----------------------------------------------------------------------------
(* C3 *)

C3_Step ==
  \A u \in Users :
    /\ confirm_add_mod_callback(u, Callback(confirm_add_mod_cancel), TRUE)
         => /\ UNCHANGED << store, sent >>
            /\ ~Has(user_data'[u], "current_mod")
            /\ add_mod_conv'[u] = END
    /\ confirm_suggest_mod_callback(u, Callback(confirm_suggest_mod_cancel), TRUE, TRUE)
         => /\ UNCHANGED << store, sent >>
            /\ ~Has(user_data'[u], "suggested_mod")
            /\ suggest_mod_conv'[u] = END

\* C3: a cancel at the confirmation of the owner flow or of the suggestion flow
\* leaves the record store as it is, sends no notification, and leaves the
\* user without the buffer of that flow.
C3_CancelDiscards == [][C3_Step]_vars

\* the owner has just cancelled an owner flow at its confirmation, after the
\* other user's suggestion was committed: that row and that notification are
\* all there is
C3_Witness ==
  /\ reply = Shown(Owner, << Msg("add_mod_cancelled"), Msg("owner_menu") >>)
  /\ ~Has(user_data[Owner], "current_mod")
  /\ add_mod_conv[Owner] = END
  /\ Len(mods) = 1
  /\ mods[1].uploader_telegram_id = OtherUser
  /\ BagCardinality(sent) = 1

----------------------------------------------------------------------------
(* C4 *)

C4_Step ==
  \A i \in 1..Len(mods) :
    mods'[i].status # mods[i].status
      => /\ mods[i].status = "pending_approval"
         /\ mods'[i].status \in { "approved", "rejected" }

\* C4: the status of a submission changes only from pending to approved or
\* from pending to rejected; a submission that was approved or rejected keeps
\* its status whatever button is pressed later.
C4_DecidedStatusIsFinal == [][C4_Step]_vars

----------------------------------------------------------------------------
(* C5 *)

\* the buttons of the owner-only entry points and the handlers behind them
OwnerOnlyButtons == { add_mod_start, review_suggested_mods_start, manage_categories_menu }

EntryPointOf(b) ==
  CASE b = add_mod_start -> "add_mod_start_callback"
    [] b = review_suggested_mods_start -> "review_suggested_mods_start_callback"
    [] b = manage_categories_menu -> "manage_categories_menu_callback"

C5_Step ==
  \A u \in NonOwners :
    /\ \A b \in OwnerOnlyButtons : Handler(u, Callback(b)) = EntryPointOf(b)
    /\ add_mod_conv[u] = END
    /\ review_mods_conv[u] = END
    /\ manage_categories_conv[u] = END
    /\ OwnerEntryPoints(u)
         => /\ reply' = Shown(u, << Msg("owner_only") >>)
            /\ UNCHANGED << store, user_data, convs, sent >>

\* C5: whatever state the conversations of a user who is not the owner are in,
\* a press of an owner-only entry button (add mod, review, manage categories)
\* reaches the entry point, which answers with the denial and changes no
\* record, no user data (buffers, review cursor) and no conversation state:
\* the owner-only conversations of that user never run.
C5_NonOwnerIsDenied == [][C5_Step]_vars

\* the other user, at the confirmation of a suggestion, has just been denied
C5_Witness ==
  /\ reply = Shown(OtherUser, << Msg("owner_only") >>)
  /\ suggest_mod_conv[OtherUser] = SUGGEST_MOD_CONFIRM
  /\ ModFields \subseteq DOMAIN Buffer(OtherUser, "suggested_mod")
  /\ Len(mods) = 1

----------------------------------------------------------------------------
(* C6 *)

Statuses == [i \in 1..Len(mods) |-> mods[i].status]

\* C6: with three pending submissions in the snapshot of the pass, the first
\* approved and the second on display, the skip button is taken by the review
\* handler (which moves on to the third, whose rejection ends the pass with
\* statuses approved, pending, rejected).
C6_SkipIsTakenByTheReview ==
  ( /\ review_mods_conv[Owner] = REVIEW_MOD_ACTION
    /\ DictGet(user_data[Owner], "pending_mods_list", << >>) = << 1, 2, 3 >>
    /\ DictGet(user_data[Owner], "current_review_index", 0) = 1
    /\ Statuses = << "approved", "pending_approval", "pending_approval" >> )
    => Handler(Owner, Callback(review_action_skip)) = "review_action_callback"

----------------------------------------------------------------------------
(* C7 *)

\* what a visitor searches for
Queries == { << "t" >>, << "%" >>, << "x" >>, << >> }

\* the submissions some page of the site shows
Visible ==
  index
    \cup UNION { mod_detail(i) : i \in 0..(Len(mods) + 1) }
    \cup UNION { category_mods(c) : c \in 0..(Len(categories) + 1) }
    \cup UNION { search(q) : q \in Queries }

\* a submission comes to be approved in this step
ComesToBeApproved(i) ==
  /\ mods'[i].status = "approved"
  /\ i \in 1..Len(mods) => mods[i].status # "approved"

C7_Step ==
  \A i \in 1..Len(mods') :
    (ComesToBeApproved(i) /\ mods'[i].uploader_telegram_id # Owner)
      => review_action_callback(Owner, Callback(ReviewButton("approve", i)), TRUE)

\* C7: every submission a public route returns (home, detail, category
\* listing, search) is approved, so that a pending or rejected submission is
\* returned by none; and a suggested submission comes to be approved, and with
\* that returned by a route, only in the step that commits an approve on it.
C7_RoutesShowApprovedOnly ==
  /\ [](\A i \in Visible : mods[i].status = "approved")
  /\ [][C7_Step]_vars

\* of three suggestions the first is approved and shown by the home page, the
\* detail page and the search, the second is rejected and the third pending
C7_Witness ==
  /\ Statuses = << "approved", "rejected", "pending_approval" >>
  /\ index = { 1 }
  /\ mod_detail(1) = { 1 }
  /\ mod_detail(2) = { }
  /\ search(<< "t" >>) = { 1 }
  /\ Visible = { 1 }

----------------------------------------------------------------------------
(* C8 *)

\* C8: no two categories have names that are equal ignoring case.
C8_NoTwoNamesEqualIgnoringCase ==
  \A i, j \in 1..Len(categories) :
    i # j => LowerText(categories[i]) # LowerText(categories[j])

----------------------------------------------------------------------------
(* C9 *)

\* the user sends /start or presses a main menu button, and a handler runs
FallbackStep(u) ==
  \/ start_command(u, Command("start"))
  \/ \E b \in { main_menu_from_review, main_menu_from_cat_manage } :
       go_to_main_menu_owner(u, Callback(b))

C9_Step ==
  \A u \in Users :
    FallbackStep(u)
      => /\ add_mod_conv[u] # END
              => add_mod_conv'[u] = END /\ ~Has(user_data'[u], "current_mod")
         /\ suggest_mod_conv[u] # END
              => suggest_mod_conv'[u] = END /\ ~Has(user_data'[u], "suggested_mod")
         /\ manage_categories_conv[u] \in { ADD_CAT_GET_NAME, ADD_CAT_CONFIRM }
              => /\ manage_categories_conv'[u] \notin { ADD_CAT_GET_NAME, ADD_CAT_CONFIRM }
                 /\ ~Has(user_data'[u], "new_category")

\* C9: /start or a main menu button handled while an owner flow, a suggestion
\* flow or a category flow is in progress ends that flow and removes its buffer.
C9_FallbackAbortsTheFlow == [][C9_Step]_vars

----------------------------------------------------------------------------
(* C10 *)

\* nothing was persisted, or exactly one row was appended
NothingOrOneRow ==
  \/ mods' = mods
  \/ Len(mods') = Len(mods) + 1 /\ SubSeq(mods', 1, Len(mods)) = mods

C10_Step ==
  \A u \in Users :
    /\ (add_mod_conv[u] = ADD_MOD_CONFIRM /\ add_mod_conv'[u] # ADD_MOD_CONFIRM)
         => /\ add_mod_conv'[u] = END
            /\ ~Has(user_data'[u], "current_mod")
            /\ NothingOrOneRow
    /\ (suggest_mod_conv[u] = SUGGEST_MOD_CONFIRM /\ suggest_mod_conv'[u] # SUGGEST_MOD_CONFIRM)
         => /\ suggest_mod_conv'[u] = END
            /\ ~Has(user_data'[u], "suggested_mod")
            /\ NothingOrOneRow

\* C10: an owner flow or a suggestion flow that leaves its confirmation step
\* has ended, with one row persisted or none, and its buffer is gone.
C10_ConfirmationEndsClean == [][C10_Step]_vars

----------------------------------------------------------------------------
(* C11 *)

\* the text the user is left with: each edit replaces the one before
LastText == reply.texts[Len(reply.texts)]

C11_Step ==
  \A u \in NonOwners, deliver_ok \in BOOLEAN :
    (FLASK_APP_AVAILABLE
       /\ confirm_suggest_mod_callback(u, Callback(confirm_suggest_mod_yes), TRUE, deliver_ok))
      => /\ Len(mods') = Len(mods) + 1
         /\ mods'[Len(mods')].status = "pending_approval"
         /\ reply'.to = u
         /\ LastText' = Msg("suggestion_received")

\* C11: a confirmed suggestion whose commit went through is persisted and its
\* user is left with the text that the suggestion was received, whether or not
\* the notification of the owner could be delivered.
C11_DeliveryFailureIsSwallowed == [][C11_Step]_vars

----------------------------------------------------------------------------
(* C12 *)

\* the cursor of a review pass
Index(u) == DictGet(user_data[u], "current_review_index", 0)

PendingList(u) == DictGet(user_data[u], "pending_mods_list", << >>)

InPass(u) == review_mods_conv[u] = REVIEW_MOD_ACTION

C12_Step ==
  \A u \in Users :
    InPass(u) => Index(u)' = Index(u) \/ Index(u)' = Index(u) + 1

\* C12: from a step taken while a review pass is running the index comes out
\* as it was or greater by one.
C12_IndexMovesOnByOne == [][C12_Step]_vars

\* a pass over three submissions has moved on twice
C12_Witness ==
  /\ InPass(Owner)
  /\ PendingList(Owner) = << 1, 2, 3 >>
  /\ Index(Owner) = 2

----------------------------------------------------------------------------
(* C13 *)

C13_Step ==
  \A u \in Users :
    /\ InPass(u) => PendingList(u)' = PendingList(u)
    /\ InPass(u)
         => /\ Index(u) < Len(PendingList(u))
            /\ Has(user_data[u], "current_review_mod_id")
            /\ user_data[u]["current_review_mod_id"] = PendingList(u)[Index(u) + 1]
    /\ (InPass(u)' /\ reply'.to = u /\ reply'.texts # << >> /\ LastText'.mod # 0)
         => \E i \in 1..Len(PendingList(u)') : PendingList(u)'[i] = LastText'.mod

\* C13: while a review pass is running no step changes the sequence of ids the
\* cursor holds, whatever is suggested or decided meanwhile; the item on
\* display is the one the index points at in that sequence, and every item
\* shown is an id of the sequence.
C13_SnapshotIsNeverMutated == [][C13_Step]_vars

\* a third suggestion was committed while the pass over the first two was at
\* its second item
C13_Witness ==
  /\ InPass(Owner)
  /\ PendingList(Owner) = << 1, 2 >>
  /\ Index(Owner) = 1
  /\ Len(mods) = 3
  /\ mods[3].status = "pending_approval"

----------------------------------------------------------------------------
(* C14 *)

\* one of the texts shown by the step is a failure message
FailureReported(u) ==
  /\ reply'.to = u
  /\ \E i \in 1..Len(reply'.texts) :
       reply'.texts[i].text \in { "db_connection_error", "add_mod_error",
                                  "suggestion_error", "category_error" }
  /\ \A i \in 1..Len(reply'.texts) : reply'.texts[i].text # "handler_error"

\* the store cannot be reached, or the commit fails
StoreFails(db_ok) == ~FLASK_APP_AVAILABLE \/ ~db_ok

C14_Step ==
  \A u \in Users, db_ok \in BOOLEAN :
    /\ (StoreFails(db_ok) /\ confirm_add_mod_callback(u, Callback(confirm_add_mod_yes), db_ok))
         => /\ FailureReported(u)
            /\ UNCHANGED store
            /\ add_mod_conv'[u] = END => ~Has(user_data'[u], "current_mod")
    /\ (StoreFails(db_ok)
          /\ confirm_suggest_mod_callback(u, Callback(confirm_suggest_mod_yes), db_ok, TRUE))
         => /\ FailureReported(u)
            /\ UNCHANGED store
            /\ suggest_mod_conv'[u] = END => ~Has(user_data'[u], "suggested_mod")
    /\ (StoreFails(db_ok)
          /\ confirm_add_category_callback(u, Callback(confirm_add_category_yes), db_ok))
         => /\ FailureReported(u)
            /\ UNCHANGED store
            /\ manage_categories_conv'[u] # ADD_CAT_CONFIRM => ~Has(user_data'[u], "new_category")

\* C14: a confirm of the owner flow, of the suggestion flow or of the category
\* flow that finds the store unavailable, or whose commit fails, shows a
\* failure message, writes no record, does not raise, and leaves no buffer of
\* the flow behind once the flow is over.
C14_StoreFailureLeavesNothing == [][C14_Step]_vars

----------------------------------------------------------------------------
(* C15 *)

\* C15: while a review pass has an item on display, a press of the skip button
\* is taken by the review handler (which leaves every record as it is, moves
\* the index on by one and displays the next item).
C15_SkipMovesOn ==
  \A u \in Users :
    InPass(u) => Handler(u, Callback(review_action_skip)) = "review_action_callback"

----------------------------------------------------------------------------
(* C16 *)

C16_Step ==
  \A u \in Users :
    (InPass(u) /\ go_to_main_menu_owner(u, Callback(main_menu_from_review)))
      => /\ reply' = Shown(u, MainMenu)
         /\ UNCHANGED store
         /\ ~InPass(u)'

\* C16: the return-to-menu button pressed while a review pass has an item on
\* display shows the main menu, changes no record, and leaves the review
\* conversation out of its per-item state.
C16_ReturnToMenuExitsThePass == [][C16_Step]_vars

----------------------------------------------------------------------------
(* C17 *)

\* the status a decision leaves
StatusAfter(a) == IF a = "approve" THEN "approved" ELSE "rejected"

\* the display step was entered again with the index at n
Redisplayed(u, n) ==
  IF n < Len(PendingList(u))
    THEN /\ InPass(u)'
         /\ user_data'[u]["current_review_mod_id"] = PendingList(u)[n + 1]
         /\ LastText' = ModMsg("review_item", PendingList(u)[n + 1])
    ELSE /\ review_mods_conv'[u] = END
         /\ Len(reply'.texts) >= 2
         /\ reply'.texts[Len(reply'.texts) - 1] = Msg("no_more_pending")
         /\ LastText' = Msg("owner_menu")

C17_Step ==
  \A u \in Users, a \in { "approve", "reject" }, id \in 1..Len(mods) :
    ( /\ InPass(u)
      /\ user_data[u]["current_review_mod_id"] = id
      /\ review_action_callback(u, Callback(ReviewButton(a, id)), TRUE) )
      => /\ mods' = [i \in 1..Len(mods) |->
                       IF i = id THEN [mods[i] EXCEPT !.status = StatusAfter(a)] ELSE mods[i]]
         /\ Index(u)' = Index(u) + 1
         /\ PendingList(u)' = PendingList(u)
         /\ Redisplayed(u, Index(u) + 1)

\* C17: an approve (a reject) of the item on display whose commit goes through
\* leaves that item approved (rejected) and every other submission as it was,
\* moves the index on by one and enters the display step again: the next item
\* of the sequence is shown, or the pass ends with "no more pending" and the menu.
C17_DecisionWritesTheDisplayedItem == [][C17_Step]_vars

\* the first of two suggestions has just been rejected and the second is shown
C17_Witness ==
  /\ reply = Shown(Owner, << ModMsg("rejected", 1), ModMsg("review_item", 2) >>)
  /\ Statuses = << "rejected", "pending_approval" >>
  /\ Index(Owner) = 1
  /\ InPass(Owner)

----------------------------------------------------------------------------
(* C19 *)

PendingIdSet == { i \in 1..Len(mods) : mods[i].status = "pending_approval" }

C19_Step ==
  \A u \in Users :
    ( /\ is_owner(u)
      /\ FLASK_APP_AVAILABLE
      /\ PendingIdSet # { }
      /\ review_suggested_mods_start_callback(u, Callback(review_suggested_mods_start)) )
      => /\ Has(user_data'[u], "pending_mods_list")
         /\ Has(user_data'[u], "current_review_index")
         /\ { PendingList(u)'[i] : i \in 1..Len(PendingList(u)') } = PendingIdSet
         /\ \A i, j \in 1..Len(PendingList(u)') :
              i < j => PendingList(u)'[i] < PendingList(u)'[j]
         /\ user_data'[u]["current_review_index"] = 0

----------------------------------------------------------------------------
(* C20 *)

C20_Step ==
  \A u \in Users :
    ( /\ is_owner(u)
      /\ FLASK_APP_AVAILABLE
      /\ PendingIdSet = { }
      /\ review_suggested_mods_start_callback(u, Callback(review_suggested_mods_start)) )
      => /\ reply' = Shown(u, << Msg("nothing_to_review"), Msg("owner_menu") >>)
         /\ ~InPass(u)'
         /\ UNCHANGED << store, sent, user_data >>

\* C20: review-start by the owner with nothing pending reports "nothing to
\* review" and shows the main menu; the per-item state is not entered and no
\* record, no notification and no cursor is changed.
C20_NothingToReview == [][C20_Step]_vars

\* review-start found two decided suggestions and nothing pending
C20_Witness ==
  /\ reply = Shown(Owner, << Msg("nothing_to_review"), Msg("owner_menu") >>)
  /\ Len(mods) = 2
  /\ PendingIdSet = { }
  /\ ~InPass(Owner)

----------------------------------------------------------------------------
(* C18 *)

DecisionKinds == { "approved", "rejected" }

\* the notice of a decision on a submission
NoticeOf(id, a) ==
  [to |-> mods[id].uploader_telegram_id, kind |-> StatusAfter(a), mod |-> id]

\* a committed approve or reject press of the running pass of u
Decides(u, a, id) ==
  /\ InPass(u)
  /\ review_action_callback(u, Callback(ReviewButton(a, id)), TRUE)

C18_Step ==
  /\ \A u \in Users, a \in { "approve", "reject" }, id \in 1..Len(mods) :
       Decides(u, a, id)
         => sent' = IF mods[id].uploader_telegram_id # Owner
                      THEN sent (+) SetToBag({ NoticeOf(id, a) })
                      ELSE sent
  /\ \A n \in BagToSet(sent') :
       (n.kind \in DecisionKinds /\ CopiesIn(n, sent') > CopiesIn(n, sent))
         => \E u \in Users, a \in { "approve", "reject" } : Decides(u, a, n.mod)

\* C18: a committed approve or reject sends one decision notice to the
\* submitter of the item when the submitter is not the owner and none when the
\* submitter is the owner; no other step (return to menu, a start, a
\* suggestion, an update nobody handles) sends a decision notice.
C18_DecisionNoticeIffNotOwner == [][C18_Step]_vars

\* the owner's own suggestion was rejected without a notice and the other
\* user's was approved with one: two notices of new suggestions and one of a
\* decision were sent
C18_Witness ==
  /\ Len(mods) = 2
  /\ mods[1].uploader_telegram_id = Owner
  /\ mods[2].uploader_telegram_id = OtherUser
  /\ Statuses = << "rejected", "approved" >>
  /\ sent = SetToBag({ [to |-> Owner, kind |-> "new_suggestion", mod |-> 1],
                       [to |-> Owner, kind |-> "new_suggestion", mod |-> 2],
                       [to |-> OtherUser, kind |-> "approved", mod |-> 2] })

----------------------------------------------------------------------------
(* C21 *)

\* not-found was reported to u, the menu came last and the pass is over
AbandonedAsNotFound(u) ==
  /\ reply'.to = u
  /\ \E i \in 1..Len(reply'.texts) :
       reply'.texts[i].text \in { "mod_not_found", "update_not_found" }
  /\ LastText' = Msg("owner_menu")
  /\ review_mods_conv'[u] = END

C21_Step ==
  \A u \in Users, a \in { "approve", "reject" }, id \in 1..MaxReviewMods + 1,
     db_ok \in BOOLEAN :
    ( /\ InPass(u)
      /\ FLASK_APP_AVAILABLE
      /\ review_action_callback(u, Callback(ReviewButton(a, id)), db_ok) )
      => \* the action step: the row of the button is gone
         /\ ~ModExists(id) => AbandonedAsNotFound(u) /\ UNCHANGED store
         \* the display step: the row the index comes to point at is gone
         /\ ( /\ ModExists(id)
              /\ db_ok
              /\ Index(u) + 1 < Len(PendingList(u))
              /\ ~ModExists(PendingList(u)[Index(u) + 2]) )
              => /\ AbandonedAsNotFound(u)
                 /\ \A i \in 1..Len(mods) : i # id => mods'[i] = mods[i]

\* C21: when the row of a submission of the snapshot is gone, at the action
\* step (the row of the pressed approve or reject button) as at the display
\* step (the row the index moves on to), not-found is reported, the owner is
\* shown the main menu, the review conversation has ended and no record is
\* changed (at the display step: none but the one just decided).
C21_MissingRowAbandonsThePass == [][C21_Step]_vars

----------------------------------------------------------------------------
(* C22 *)

C22_Step ==
  \A u \in Users, b \in MalformedButtons, db_ok \in BOOLEAN :
    ( /\ InPass(u)
      /\ FLASK_APP_AVAILABLE
      /\ review_action_callback(u, Callback(b), db_ok) )
      => /\ reply'.to = u
         /\ Len(reply'.texts) = 1
         /\ LastText'.text \in { "action_data_error", "unknown_action" }
         /\ review_mods_conv'[u] = END
         /\ UNCHANGED << store, sent >>
         /\ Index(u)' = Index(u)
         /\ PendingList(u)' = PendingList(u)

----------------------------------------------------------------------------
(* C23 *)

\* the field a collection state waits for, and the state that follows it
FieldOf(state) ==
  CASE state \in { ADD_MOD_NAME, SUGGEST_MOD_NAME } -> "name"
    [] state \in { ADD_MOD_DESCRIPTION, SUGGEST_MOD_DESCRIPTION } -> "description"
    [] state \in { ADD_MOD_LINK, SUGGEST_MOD_LINK } -> "download_link"
    [] state \in { ADD_MOD_IMAGE, SUGGEST_MOD_IMAGE } -> "image_filename"

AddCollection == { ADD_MOD_NAME, ADD_MOD_DESCRIPTION, ADD_MOD_LINK, ADD_MOD_IMAGE }

SuggestCollection ==
  { SUGGEST_MOD_NAME, SUGGEST_MOD_DESCRIPTION, SUGGEST_MOD_LINK, SUGGEST_MOD_IMAGE }

\* the flow under key moved from its collection state to the next state: its
\* buffer gained the field of that state and lost nothing, and no record and
\* no notification was written
CollectionStep(u, key, state) ==
  /\ Has(user_data[u], key)
  /\ Has(user_data'[u], key)
  /\ DOMAIN user_data'[u][key] = DOMAIN user_data[u][key] \cup { FieldOf(state) }
  /\ \A f \in DOMAIN user_data[u][key] :
       f # FieldOf(state) => user_data'[u][key][f] = user_data[u][key][f]
  /\ \A k \in DOMAIN user_data[u] : k # key => user_data'[u][k] = user_data[u][k]
  /\ UNCHANGED << store, sent >>

C23_Step ==
  \A u \in Users :
    /\ add_mod_conv'[u] # add_mod_conv[u]
         => \/ add_mod_conv[u] = END /\ add_mod_conv'[u] = ADD_MOD_NAME
            \/ /\ add_mod_conv[u] \in AddCollection
               /\ add_mod_conv'[u] = add_mod_conv[u] + 1
               /\ CollectionStep(u, "current_mod", add_mod_conv[u])
               /\ suggest_mod_conv'[u] = suggest_mod_conv[u]
            \/ add_mod_conv[u] = ADD_MOD_CONFIRM /\ add_mod_conv'[u] = END
    /\ suggest_mod_conv'[u] # suggest_mod_conv[u]
         => \/ suggest_mod_conv[u] = END /\ suggest_mod_conv'[u] = SUGGEST_MOD_NAME
            \/ /\ suggest_mod_conv[u] \in SuggestCollection
               /\ suggest_mod_conv'[u] = suggest_mod_conv[u] + 1
               /\ CollectionStep(u, "suggested_mod", suggest_mod_conv[u])
               /\ add_mod_conv'[u] = add_mod_conv[u]
            \/ suggest_mod_conv[u] = SUGGEST_MOD_CONFIRM /\ suggest_mod_conv'[u] = END
    /\ \A t \in Names :
         /\ get_owner_mod_name(u, TextMsg(t))
              => add_mod_conv[u] = ADD_MOD_NAME /\ add_mod_conv'[u] = ADD_MOD_DESCRIPTION
         /\ get_user_mod_name(u, TextMsg(t))
              => /\ suggest_mod_conv[u] = SUGGEST_MOD_NAME
                 /\ suggest_mod_conv'[u] = SUGGEST_MOD_DESCRIPTION
    /\ \A t \in Descriptions :
         /\ get_owner_mod_description(u, TextMsg(t))
              => add_mod_conv[u] = ADD_MOD_DESCRIPTION /\ add_mod_conv'[u] = ADD_MOD_LINK
         /\ get_user_mod_description(u, TextMsg(t))
              => /\ suggest_mod_conv[u] = SUGGEST_MOD_DESCRIPTION
                 /\ suggest_mod_conv'[u] = SUGGEST_MOD_LINK
    /\ \A t \in Links :
         /\ get_owner_mod_link(u, TextMsg(t))
              => add_mod_conv[u] = ADD_MOD_LINK /\ add_mod_conv'[u] = ADD_MOD_IMAGE
         /\ get_user_mod_link(u, TextMsg(t))
              => /\ suggest_mod_conv[u] = SUGGEST_MOD_LINK
                 /\ suggest_mod_conv'[u] = SUGGEST_MOD_IMAGE
    /\ \A p \in Photos :
         /\ get_owner_mod_image(u, PhotoMsg(p))
              => add_mod_conv[u] = ADD_MOD_IMAGE /\ add_mod_conv'[u] = ADD_MOD_CONFIRM
         /\ get_user_mod_image(u, PhotoMsg(p))
              => /\ suggest_mod_conv[u] = SUGGEST_MOD_IMAGE
                 /\ suggest_mod_conv'[u] = SUGGEST_MOD_CONFIRM

\* C23: the owner flow and the suggestion flow go from their entry to the name
\* step, from each collection step (name, description, link, image) to exactly
\* the next one and after the image to the confirmation, and from there to the
\* end, never otherwise; the step that handles the one message it is sent
\* adds its own field to the buffer of its flow, leaves the fields collected
\* before and every other key as they were, writes no record and sends no
\* notification, and leaves the other flow of the user where it was.
C23_StepsInFixedOrder == [][C23_Step]_vars

\* the owner flow has taken name, description and link and waits for the image,
\* while the other user's suggestion has taken its name
C23_Witness ==
  /\ add_mod_conv[Owner] = ADD_MOD_IMAGE
  /\ DOMAIN Buffer(Owner, "current_mod") = { "name", "description", "download_link" }
  /\ Buffer(Owner, "current_mod")["name"] = << "a", "B" >>
  /\ reply = Shown(Owner, << Msg("link_saved") >>)
  /\ suggest_mod_conv[OtherUser] = SUGGEST_MOD_DESCRIPTION
  /\ DOMAIN Buffer(OtherUser, "suggested_mod") = { "name" }

----------------------------------------------------------------------------
(* C24 *)

AddTextStates == { ADD_MOD_NAME, ADD_MOD_DESCRIPTION, ADD_MOD_LINK }

SuggestTextStates == { SUGGEST_MOD_NAME, SUGGEST_MOD_DESCRIPTION, SUGGEST_MOD_LINK }

\* the handlers of the owner flow and of the suggestion flow
AddHandlers ==
  { "add_mod_start_callback", "get_owner_mod_name", "get_owner_mod_description",
    "get_owner_mod_link", "get_owner_mod_image", "confirm_add_mod_callback" }

SuggestHandlers ==
  { "suggest_new_mod_start_callback", "get_user_mod_name", "get_user_mod_description",
    "get_user_mod_link", "get_user_mod_image", "confirm_suggest_mod_callback" }

\* the owner flow of u keeps its state and its buffer
AddFlowStays(u) ==
  /\ add_mod_conv'[u] = add_mod_conv[u]
  /\ SameBuffer(u, "current_mod")

SuggestFlowStays(u) ==
  /\ suggest_mod_conv'[u] = suggest_mod_conv[u]
  /\ SameBuffer(u, "suggested_mod")

\* while a flow waits for an image no text and no command is given to a
\* handler of the flow, and while it waits for a text no photo is
C24_Dispatch ==
  \A u \in Users :
    /\ add_mod_conv[u] = ADD_MOD_IMAGE
         => /\ Handler(u, TextMsg(<< "T" >>)) \notin AddHandlers
            /\ Handler(u, Command("help")) = "unknown_command"
    /\ suggest_mod_conv[u] = SUGGEST_MOD_IMAGE
         => /\ Handler(u, TextMsg(<< "T" >>)) \notin SuggestHandlers
            /\ Handler(u, Command("help")) = "unknown_command"
    /\ add_mod_conv[u] \in AddTextStates
         => \A p \in Photos : Handler(u, PhotoMsg(p)) \notin AddHandlers
    /\ suggest_mod_conv[u] \in SuggestTextStates
         => \A p \in Photos : Handler(u, PhotoMsg(p)) \notin SuggestHandlers

C24_Step ==
  \A u \in Users :
    /\ add_mod_conv[u] = ADD_MOD_IMAGE
         => \/ AddFlowStays(u)
            \/ \E p \in Photos : get_owner_mod_image(u, PhotoMsg(p))
    /\ suggest_mod_conv[u] = SUGGEST_MOD_IMAGE
         => \/ SuggestFlowStays(u)
            \/ \E p \in Photos : get_user_mod_image(u, PhotoMsg(p))
    /\ add_mod_conv[u] \in AddTextStates
         => \/ AddFlowStays(u)
            \/ \E t \in Names \cup Descriptions \cup Links :
                 \/ get_owner_mod_name(u, TextMsg(t))
                 \/ get_owner_mod_description(u, TextMsg(t))
                 \/ get_owner_mod_link(u, TextMsg(t))
    /\ suggest_mod_conv[u] \in SuggestTextStates
         => \/ SuggestFlowStays(u)
            \/ \E t \in Names \cup Descriptions \cup Links :
                 \/ get_user_mod_name(u, TextMsg(t))
                 \/ get_user_mod_description(u, TextMsg(t))
                 \/ get_user_mod_link(u, TextMsg(t))

\* C24: while a flow waits for an image, a text or an unknown command reaches
\* no handler of the flow, and every step that is not the handling of a photo
\* by the image step leaves the state and the buffer of the flow as they were;
\* while a flow waits for a text, a photo reaches no handler of the flow, and
\* every step that is not the handling of a text by the flow leaves its state
\* and its buffer as they were.
C24_WrongKindOfMessageIsIgnored == [](C24_Dispatch) /\ [][C24_Step]_vars

\* the owner flow waits for the image and has just answered an unknown command
C24_Witness ==
  /\ add_mod_conv[Owner] = ADD_MOD_IMAGE
  /\ reply = Shown(Owner, << Msg("unknown_command") >>)
  /\ DOMAIN Buffer(Owner, "current_mod") = { "name", "description", "download_link" }
  /\ suggest_mod_conv[OtherUser] = SUGGEST_MOD_NAME

----------------------------------------------------------------------------
(* C25 *)

\* C25: in every state, and so with an attempt of the flow left half-way, a
\* press of the add-mod button by the owner is taken by the entry point of the
\* owner flow and a press of the suggest button by any user by the entry point
\* of the suggestion flow (which empty the buffer and ask for the name).
C25_EntryStartsAfresh ==
  /\ Handler(Owner, Callback(add_mod_start)) = "add_mod_start_callback"
  /\ \A u \in Users :
       Handler(u, Callback(suggest_new_mod_start)) = "suggest_new_mod_start_callback"

----------------------------------------------------------------------------
(* C26 *)

\* some category has a name equal to cat_name ignoring case
EqualIgnoringCase(cat_name) ==
  \E i \in 1..Len(categories) : LowerText(categories[i]) = LowerText(cat_name)

C26_Step ==
  \A u \in Users :
    ( /\ FLASK_APP_AVAILABLE
      /\ Has(user_data[u], "new_category")
      /\ Has(user_data[u]["new_category"], "name")
      /\ confirm_add_category_callback(u, Callback(confirm_add_category_yes), TRUE) )
      => LET cat_name == user_data[u]["new_category"]["name"]
         IN IF EqualIgnoringCase(cat_name)
              THEN /\ categories' = categories
                   /\ reply'.texts[1] # Msg("category_added")
              ELSE /\ categories' = Append(categories, cat_name)
                   /\ reply'.texts[1] = Msg("category_added")

\* C26: a confirm of the category flow whose write the store takes persists
\* the category and reports success when no category has a name equal to the
\* entered one ignoring case, whatever characters the name holds, and persists
\* nothing and reports no success when one has.
C26_PersistedIffNoNameEqualIgnoringCase == [][C26_Step]_vars

----------------------------------------------------------------------------
(* C27 *)

C27_Step ==
  \A u \in Users, a \in { "approve", "reject" }, id \in 1..Len(mods) :
    ( /\ InPass(u)
      /\ FLASK_APP_AVAILABLE
      /\ review_action_callback(u, Callback(ReviewButton(a, id)), TRUE) )
      => /\ Index(u) < Len(PendingList(u))
         /\ id = PendingList(u)[Index(u) + 1]

\* C27: an approve or a reject processed in a review pass writes the status of
\* the submission at the index of the cursor in the snapshot, so that the index
\* moves past an item only by an action on that item.
C27_DecisionIsOnTheItemAtTheIndex == [][C27_Step]_vars

----------------------------------------------------------------------------
(* C28 *)

\* how many decision notices were sent about submission id
DecisionNotices(id) ==
  CopiesIn([to |-> mods[id].uploader_telegram_id, kind |-> "approved", mod |-> id], sent)
    + CopiesIn([to |-> mods[id].uploader_telegram_id, kind |-> "rejected", mod |-> id], sent)

\* C28: over all review actions and passes so far, the submitter of a
\* submission was sent at most one decision notice (approved or rejected)
\* about it.
C28_AtMostOneDecisionNotice ==
  \A id \in 1..Len(mods) : DecisionNotices(id) <= 1

----------------------------------------------------------------------------
(* C29 *)

\* the fields the steps before a state of the owner flow or of the suggestion
\* flow have collected
CollectedBefore(state) ==
  CASE state \in { ADD_MOD_NAME, SUGGEST_MOD_NAME } -> { }
    [] state \in { ADD_MOD_DESCRIPTION, SUGGEST_MOD_DESCRIPTION } -> { "name" }
    [] state \in { ADD_MOD_LINK, SUGGEST_MOD_LINK } -> { "name", "description" }
    [] state \in { ADD_MOD_IMAGE, SUGGEST_MOD_IMAGE } ->
         { "name", "description", "download_link" }
    [] state \in { ADD_MOD_CONFIRM, SUGGEST_MOD_CONFIRM } -> ModFields

\* the user has the buffer under key and the buffer has the fields
Holds(u, key, fields) ==
  /\ Has(user_data[u], key)
  /\ fields \subseteq DOMAIN user_data[u][key]

\* C29: in every state in which the owner flow, the suggestion flow or the
\* category flow of a user waits for an input or for its confirmation, the
\* user has the buffer of that flow and the buffer holds every field the
\* earlier steps of the flow collected (at the confirmation: name, description,
\* link and image file name; in the category flow: the name); no handler has
\* raised for want of a buffer or a field.
C29_AwaitingFlowHasItsBuffer ==
  /\ \A u \in Users :
       /\ add_mod_conv[u] # END
            => Holds(u, "current_mod", CollectedBefore(add_mod_conv[u]))
       /\ suggest_mod_conv[u] # END
            => Holds(u, "suggested_mod", CollectedBefore(suggest_mod_conv[u]))
       /\ manage_categories_conv[u] = ADD_CAT_GET_NAME => Holds(u, "new_category", { })
       /\ manage_categories_conv[u] = ADD_CAT_CONFIRM => Holds(u, "new_category", { "name" })
  /\ \A i \in 1..Len(reply.texts) : reply.texts[i].text # "handler_error"

\* the owner is at the confirmation of the owner flow and of the category flow
\* and at the image step of a suggestion
C29_Witness ==
  /\ add_mod_conv[Owner] = ADD_MOD_CONFIRM
  /\ DOMAIN Buffer(Owner, "current_mod") = ModFields
  /\ manage_categories_conv[Owner] = ADD_CAT_CONFIRM
  /\ Buffer(Owner, "new_category") = [name |-> << "A", "b" >>]
  /\ suggest_mod_conv[Owner] = SUGGEST_MOD_IMAGE
  /\ DOMAIN Buffer(Owner, "suggested_mod") = { "name", "description", "download_link" }

----------------------------------------------------------------------------
(* C30 *)

\* the last thing shown is the main menu, shown to the owner
OwnerAtMainMenu ==
  /\ reply.to = Owner
  /\ reply.texts # << >>
  /\ LastText = Msg("owner_menu")

\* C30: whenever the owner has been brought to the main menu (by the
\* return-to-menu button, by /start, or by the end or an error of a flow), a
\* press of the review button is taken by the entry point of the review
\* conversation and a press of the add-mod button by the entry point of the
\* owner flow: no conversation is left in a state that ignores its entry.
C30_OwnerCanAlwaysBeginAgain ==
  OwnerAtMainMenu
    => /\ Handler(Owner, Callback(review_suggested_mods_start))
            = "review_suggested_mods_start_callback"
       /\ Handler(Owner, Callback(add_mod_start)) = "add_mod_start_callback"

----------------------------------------------------------------------------
(* C31 *)

\* a confirm-yes of the owner flow or of the suggestion flow
ConfirmsMod ==
  \E u \in Users, db_ok \in BOOLEAN :
    \/ confirm_add_mod_callback(u, Callback(confirm_add_mod_yes), db_ok)
    \/ \E deliver_ok \in BOOLEAN :
         confirm_suggest_mod_callback(u, Callback(confirm_suggest_mod_yes), db_ok, deliver_ok)

\* a confirm-yes of the category flow
ConfirmsCategory ==
  \E u \in Users, db_ok \in BOOLEAN :
    confirm_add_category_callback(u, Callback(confirm_add_category_yes), db_ok)

C31_Step ==
  /\ \/ Len(mods') = Len(mods)
     \/ /\ Len(mods') = Len(mods) + 1
        /\ Len(categories') = Len(categories)
        /\ ConfirmsMod
  /\ \/ Len(categories') = Len(categories)
     \/ /\ Len(categories') = Len(categories) + 1
        /\ Len(mods') = Len(mods)
        /\ ConfirmsCategory

\* C31: the number of submissions changes only in a confirm-yes step of the
\* owner flow or of the suggestion flow and the number of categories only in a
\* confirm-yes step of the category flow, and such a step adds one record; no
\* other step (entry, collection, cancel, review action, menu, /start, an
\* update nothing handles) creates or deletes a submission or a category.
C31_OnlyConfirmAddsARecord == [][C31_Step]_vars

\* the owner added a mod and a category, and the review of the owner's
\* suggestion has just rejected it and ended: two submissions and one category
C31_Witness ==
  /\ Len(mods) = 2
  /\ Statuses = << "approved", "rejected" >>
  /\ categories = << << "A", "b" >> >>
  /\ reply = Shown(Owner, << ModMsg("rejected", 2), Msg("no_more_pending"),
                             Msg("owner_menu") >>)

====
